---- MODULE Spec2Model ----
(***************************************************************************)
(* Verification model of the document ingestion pipeline:                  *)
(*   SecureFileProcessor (processing coordinator, validation),             *)
(*   FileExtractor.extractContent (as far as the coordinator depends on    *)
(*   it) and DocumentChunker.                                              *)
(*                                                                         *)
(* Node.js runs every handler to completion between two suspension points, *)
(* so one action is one run-to-completion segment of the code.             *)
(***************************************************************************)
EXTENDS Bags, FiniteSets, Integers, Sequences, TLC

VARIABLES
    jobs,             \* multiset of per-call states of processFile (see Job)
    callsLeft,        \* processFile calls the environment may still make
    processingQueue,  \* SecureFileProcessor.processingQueue
    ev,               \* what the last step did (observation record)
    busySeen,         \* some call has been rejected with the busy error
    faultsLeft,       \* file-system failures (unlink, partial write) still to come
    sigBuf, sigMime, sigOut,  \* the validation applied to one buffer head
    ck,               \* one call of DocumentChunker.chunkDocument (see CkInit)
    tc,               \* a UniversalTokenCounter and the calls made on it (see TcInit)
    sn,               \* one text on its way through sanitizeContent (see SnInit)
    extractionCache,  \* FileExtractor.extractionCache: its entries in Map order
    ap,               \* processFile calls told apart by their processingId (see ApInit)
    nm,               \* one file name on its way through the name check (see NmInit)
    fx,               \* FileExtractor.extractContent calls and the clock (see FxInit)
    rt,               \* one request to POST /process (see RtInit)
    sl                \* one parsed slide given to extractTextFromSlideXMLSafe (see SlInit)

LaterVars == <<ap, nm, fx, rt, sl>>

vars == <<jobs, callsLeft, processingQueue, ev, busySeen, faultsLeft, sigBuf, sigMime, sigOut, ck, tc, sn, extractionCache, LaterVars>>

(***************************************************************************)
(* Bounds of the model.                                                    *)
(***************************************************************************)
NumJobs == 12     \* processFile calls in one behaviour of Spec
LiveJobs == 3     \* processFile calls in one behaviour of SpecLive
MaxFaults == 1    \* file-system failures in one behaviour
MaxBufLen == 4    \* longest buffer head enumerated for the signature check

(***************************************************************************)
(* SecureFileProcessor: limits set by the constructor.                     *)
(***************************************************************************)
MAX_FILE_SIZE == 52428800
MAX_CONCURRENT_PROCESSING == 10
ScanWindow == 10000

PDF == "application/pdf"
DOCX == "application/vnd.openxmlformats-officedocument.wordprocessingml.document"
XLSX == "application/vnd.openxmlformats-officedocument.spreadsheetml.sheet"
PPTX == "application/vnd.openxmlformats-officedocument.presentationml.presentation"
TXT == "text/plain"

\* FileExtractor.supportedTypes
supportedTypes ==
    (PDF :> "pdf") @@ (DOCX :> "docx") @@ (XLSX :> "xlsx") @@ (PPTX :> "pptx")
    @@ (TXT :> "txt")

isSupported(mimeType) == mimeType \in DOMAIN supportedTypes

\* magic numbers; <<>> stands for the null entry of text/plain
PdfMagic == <<37, 80, 68, 70>>
ZipMagic == <<80, 75, 3, 4>>
signatures ==
    (PDF :> PdfMagic) @@ (DOCX :> ZipMagic) @@ (XLSX :> ZipMagic)
    @@ (PPTX :> ZipMagic) @@ (TXT :> <<>>)

\* a signature check that compares only the bytes the buffer has
validateFileSignaturePresentBytes(bytes, mimeType) ==
    IF mimeType \notin DOMAIN signatures \/ signatures[mimeType] = <<>>
    THEN TRUE
    ELSE \A index \in 1..Len(signatures[mimeType]) :
             index <= Len(bytes) => bytes[index] = signatures[mimeType][index]

\* validateFileSignature: TRUE when it returns, FALSE when it throws.
\* bytes is the head of the buffer; a byte past its end reads as undefined.
validateFileSignature(bytes, mimeType) ==
    IF mimeType \notin DOMAIN signatures \/ signatures[mimeType] = <<>>
    THEN TRUE
    ELSE LET expectedSignature == signatures[mimeType]
         IN \A index \in 1..Len(expectedSignature) :
                /\ index <= Len(bytes)
                /\ bytes[index] = expectedSignature[index]

\* characters a file name is made of in the model
ControlChar == "\\x01"
invalidChars == {"<", ">", ":", "\"", "|", "?", "*", ControlChar}
reservedNames ==
    {<<"C","O","N">>, <<"P","R","N">>, <<"A","U","X">>, <<"N","U","L">>}
    \cup { <<"C","O","M", d>> : d \in {"1","2","3","4","5","6","7","8","9"} }
    \cup { <<"L","P","T", d>> : d \in {"1","2","3","4","5","6","7","8","9"} }

toUpper(c) ==
    CASE c = "c" -> "C" [] c = "o" -> "O" [] c = "n" -> "N" [] c = "p" -> "P"
      [] c = "r" -> "R" [] c = "a" -> "A" [] c = "u" -> "U" [] c = "x" -> "X"
      [] c = "l" -> "L" [] c = "m" -> "M" [] c = "t" -> "T"
      [] OTHER -> c

\* fileName.split('.')[0]
beforeFirstDot(fileName) ==
    LET dots == { i \in 1..Len(fileName) : fileName[i] = "." }
    IN IF dots = {} THEN fileName
       ELSE SubSeq(fileName, 1, (CHOOSE i \in dots : \A k \in dots : i <= k) - 1)

\* isValidFileName: a file name is a sequence of characters
isValidFileName(fileName) ==
    /\ fileName # <<>>
    /\ Len(fileName) <= 255
    /\ ~ \E i \in 1..Len(fileName) : fileName[i] \in invalidChars
    /\ ~ \E i \in 1..(Len(fileName) - 1) : fileName[i] = "." /\ fileName[i + 1] = "."
    /\ [ i \in 1..Len(beforeFirstDot(fileName)) |-> toUpper(beforeFirstDot(fileName)[i]) ]
          \notin reservedNames

\* scanForMaliciousContent: TRUE when it returns, FALSE when it throws.
\* A buffer records which blacklisted pattern it holds (if any) and where;
\* only the first 10000 bytes are converted and tested.
maliciousPatterns ==
    ("javascript:" :> 11) @@ ("<script" :> 7) @@ ("vbscript:" :> 9)
    @@ ("onload=" :> 7) @@ ("%3Cscript" :> 9)

scanForMaliciousContent(buffer) ==
    LET window == IF buffer.length < ScanWindow THEN buffer.length ELSE ScanWindow
    IN ~ ( /\ buffer.pattern \in DOMAIN maliciousPatterns
           /\ buffer.patternAt + maliciousPatterns[buffer.pattern] <= window )

\* validateFileSecurely: "ok" when it returns, else the reason of the throw,
\* the checks in the order of the code
validateFileSecurely(fileBuffer, fileName, mimeType) ==
    IF fileBuffer.length > MAX_FILE_SIZE THEN "tooLarge"
    ELSE IF ~isValidFileName(fileName) THEN "invalidName"
    ELSE IF ~isSupported(mimeType) THEN "unsupportedType"
    ELSE IF ~validateFileSignature(fileBuffer.bytes, mimeType) THEN "signatureMismatch"
    ELSE IF ~scanForMaliciousContent(fileBuffer) THEN "maliciousContent"
    ELSE "ok"

(***************************************************************************)
(* FileExtractor.extractContent as processFile sees it.                    *)
(*                                                                         *)
(* An extraction is what performExtraction does with the temp file: it     *)
(* rejects (parse error, the extractor's own 60 s timeout) or resolves     *)
(* with a text that is empty, clean, or holds a suspicious pattern.        *)
(***************************************************************************)
Extractions ==
    { [status |-> "rejected", text |-> "none"] }
    \cup { [status |-> "resolved", text |-> t] : t \in {"empty", "clean", "suspicious"} }

\* extractionCache: cacheResult is the only writer and extractContent never
\* reaches it with a key (see cacheKeyInScope), so no lookup ever hits
cacheHit == FALSE

\* `const cacheKey` is declared inside the first try block of extractContent;
\* the use `cacheKey || 'nocache'` in the second try block is outside its
\* scope and raises a ReferenceError, which the surrounding catch rethrows
cacheKeyInScope == FALSE

\* validateExtractedContent: TRUE when it returns, FALSE when it throws
validateExtractedContent(result) == result.text = "clean"

\* extractContent: "returned" or "threw"
extractContent(x) ==
    IF cacheHit THEN "returned"
    ELSE IF x.status = "rejected" THEN "threw"
    ELSE IF ~validateExtractedContent(x) THEN "threw"
    ELSE IF ~cacheKeyInScope THEN "threw"
    ELSE "returned"

\* processFile calls chunkDocument (an async function) without await, so
\* `chunks` is a Promise and `chunks.map` raises a TypeError
chunksIsArray == FALSE

\* processFile from the resumption after the extraction race to its return
\* or throw: "returned" or "failed"
processExtracted(x) ==
    IF extractContent(x) = "threw" THEN "failed"
    ELSE IF x.text = "empty" THEN "failed"
    ELSE IF ~chunksIsArray THEN "failed"
    ELSE "returned"

(***************************************************************************)
(* The processing coordinator.                                             *)
(*                                                                         *)
(* processingId is a fresh UUID that is used only as the key of            *)
(* activeProcessing and in the temp file's name, so calls are              *)
(* interchangeable: `jobs` is the multiset of the states of the calls in   *)
(* flight and of the leftovers of finished calls.  A job is                *)
(*   pc         "write"   awaiting fs.writeFile in createSecureTempFile    *)
(*              "extract" awaiting the race of extractContent and the      *)
(*                        timeout promise                                  *)
(*              "done"    processFile has returned or thrown               *)
(*   registered its id is a key of activeProcessing; the deadline timer    *)
(*              of the entry is pending exactly as long as the entry is    *)
(*              there                                                      *)
(*   tempFile   its temp file is on disk                                   *)
(*   ttl        the auto-delete timer of createSecureTempFile is pending   *)
(***************************************************************************)
Job(pc, registered, tempFile, ttl) ==
    [pc |-> pc, registered |-> registered, tempFile |-> tempFile, ttl |-> ttl]

\* how many jobs of the multiset are in one of the states S
RECURSIVE Count(_)
Count(S) ==
    IF S = {} THEN 0
    ELSE LET j == CHOOSE j \in S : TRUE
         IN CopiesIn(j, jobs) + Count(S \ {j})

\* activeProcessing.size
activeProcessingSize == Count({ j \in BagToSet(jobs) : j.registered })
\* calls admitted that have neither returned nor thrown
inFlight == Count({ j \in BagToSet(jobs) : j.pc \in {"write", "extract"} })
\* files in the secure temp directory
tempFiles == Count({ j \in BagToSet(jobs) : j.tempFile })

\* a finished job that left nothing behind is dropped from the multiset; the
\* auto-delete timer of a file that is already gone only logs a warning
Leftover(j) == j.pc # "done" \/ j.registered \/ j.tempFile
Replace(old, new) ==
    (jobs (-) SetToBag({old})) (+) (IF Leftover(new) THEN SetToBag({new}) ELSE EmptyBag)

\* what the last step did: its kind, for a call whether validation passed,
\* for a settled call whether its extraction had resolved with clean text
Event(kind, valid, good) == [kind |-> kind, valid |-> valid, good |-> good]
NoEvent == Event("none", TRUE, FALSE)
Other == Event("other", TRUE, FALSE)
IsGood(x) == x.status = "resolved" /\ x.text = "clean"

\* a rate limit that is off by one
admissionOffByOne(verdict, size) ==
    IF verdict # "ok" THEN "invalid"
    ELSE IF size > MAX_CONCURRENT_PROCESSING THEN "busy"
    ELSE "admitted"

\* a processFile that does not act on the verdict of the validation
admissionUnvalidated(verdict, size) ==
    IF size >= MAX_CONCURRENT_PROCESSING THEN "busy" ELSE "admitted"

\* processFile, lines 58-64: the outcome of validation and of the rate limit
admission(verdict, size) ==
    IF verdict # "ok" THEN "invalid"
    ELSE IF size >= MAX_CONCURRENT_PROCESSING THEN "busy"
    ELSE "admitted"

\* a cleanup that unlinks the file but leaves the entry in the map
cleanupProcessingKeepsEntry(job, tempFilePath, unlinked) ==
    [job EXCEPT !.tempFile = IF tempFilePath /\ unlinked THEN FALSE ELSE @]

\* cleanupProcessing(processingId, tempFilePath): clears the deadline timer,
\* deletes the entry and, given a path, unlinks the temp file (unlinked
\* tells whether fs.unlink succeeds; a failure is logged and swallowed)
cleanupProcessing(job, tempFilePath, unlinked) ==
    [job EXCEPT !.registered = FALSE,
                !.tempFile = IF tempFilePath /\ unlinked THEN FALSE ELSE @]

\* timeoutProcessing(processingId): the deadline timer's callback
timeoutProcessing(job) == cleanupProcessing(job, FALSE, FALSE)

\* The inputs processFile is called with: one buffer per way of failing
\* validation, and valid documents of several types.
Buffer(bytes, length, pattern, patternAt) ==
    [bytes |-> bytes, length |-> length, pattern |-> pattern, patternAt |-> patternAt]

GoodName == <<"r", ".", "p", "d", "f">>
CallInputs ==
    { <<Buffer(PdfMagic, 2048, "none", 0), GoodName, PDF>>,
      <<Buffer(<<104, 105>>, 2, "none", 0), GoodName, TXT>>,
      <<Buffer(PdfMagic, 20000, "<script", 15000), GoodName, PDF>>,
      <<Buffer(PdfMagic, MAX_FILE_SIZE + 1, "none", 0), GoodName, PDF>>,
      <<Buffer(PdfMagic, 2048, "none", 0), <<".", ".", "x">>, PDF>>,
      <<Buffer(PdfMagic, 2048, "none", 0), GoodName, "image/png">>,
      <<Buffer(ZipMagic, 2048, "none", 0), GoodName, PDF>>,
      <<Buffer(PdfMagic, 2048, "javascript:", 100), GoodName, PDF>> }

\* processFile up to its first suspension on I/O: validation, the rate limit,
\* registration with the deadline timer, and the start of fs.writeFile.
\* (The await of validateFileSecurely settles within the same drain of the
\* microtask queue and touches no shared state.)
processFile(fileBuffer, fileName, mimeType) ==
    /\ callsLeft > 0
    /\ callsLeft' = callsLeft - 1
    /\ LET verdict == validateFileSecurely(fileBuffer, fileName, mimeType)
           outcome == admission(verdict, activeProcessingSize)
       IN /\ jobs' = IF outcome = "admitted"
                     THEN jobs (+) SetToBag({Job("write", TRUE, FALSE, FALSE)})
                     ELSE jobs
          /\ ev' = Event(outcome, verdict = "ok", FALSE)
          /\ busySeen' = (busySeen \/ outcome = "busy")
    /\ UNCHANGED <<processingQueue, faultsLeft, sigBuf, sigMime, sigOut, ck, tc, sn, extractionCache, LaterVars>>

\* an I/O operation that may fail does so only while the fault budget lasts
Faulty(failed) == IF failed THEN 1 ELSE 0
MayFail(failed) == Faulty(failed) <= faultsLeft

\* createSecureTempFile resumes after fs.writeFile succeeded: the file is on
\* disk, the auto-delete timer is set, and processFile calls extractContent
\* and races it against the timeout promise
writeFileDone(job) ==
    /\ BagIn(job, jobs) /\ job.pc = "write"
    /\ jobs' = Replace(job, [job EXCEPT !.pc = "extract", !.tempFile = TRUE, !.ttl = TRUE])
    /\ ev' = Other
    /\ UNCHANGED <<callsLeft, processingQueue, busySeen, faultsLeft, sigBuf, sigMime, sigOut, ck, tc, sn, extractionCache, LaterVars>>

\* fs.writeFile rejects (partial tells whether it left a file behind):
\* catch, then finally with tempFilePath still null
writeFileFails(job, partial) ==
    /\ BagIn(job, jobs) /\ job.pc = "write"
    /\ MayFail(partial)
    /\ faultsLeft' = faultsLeft - Faulty(partial)
    /\ jobs' = Replace(job, [cleanupProcessing([job EXCEPT !.tempFile = partial], FALSE, FALSE)
                                 EXCEPT !.pc = "done"])
    /\ ev' = Event("failed", TRUE, FALSE)
    /\ UNCHANGED <<callsLeft, processingQueue, busySeen, sigBuf, sigMime, sigOut, ck, tc, sn, extractionCache, LaterVars>>

\* extractContent settles before the timeout promise: the rest of processFile
\* runs to its return or throw, then finally
extractionSettles(job, x, unlinked) ==
    /\ BagIn(job, jobs) /\ job.pc = "extract"
    /\ MayFail(~unlinked)
    /\ faultsLeft' = faultsLeft - Faulty(~unlinked)
    /\ jobs' = Replace(job, [cleanupProcessing(job, TRUE, unlinked) EXCEPT !.pc = "done"])
    /\ ev' = Event(processExtracted(x), TRUE, IsGood(x))
    /\ UNCHANGED <<callsLeft, processingQueue, busySeen, sigBuf, sigMime, sigOut, ck, tc, sn, extractionCache, LaterVars>>

\* the timeout promise of the race rejects.  Its timer is set after the
\* deadline timer with the same delay, so it fires only once the deadline
\* timer has fired
raceTimeout(job, unlinked) ==
    /\ BagIn(job, jobs) /\ job.pc = "extract" /\ ~job.registered
    /\ MayFail(~unlinked)
    /\ faultsLeft' = faultsLeft - Faulty(~unlinked)
    /\ jobs' = Replace(job, [cleanupProcessing(job, TRUE, unlinked) EXCEPT !.pc = "done"])
    /\ ev' = Event("timeout", TRUE, FALSE)
    /\ UNCHANGED <<callsLeft, processingQueue, busySeen, sigBuf, sigMime, sigOut, ck, tc, sn, extractionCache, LaterVars>>

\* the deadline timer of an entry of activeProcessing fires
deadlineTimer(job) ==
    /\ BagIn(job, jobs) /\ job.registered
    /\ jobs' = Replace(job, timeoutProcessing(job))
    /\ ev' = Other
    /\ UNCHANGED <<callsLeft, processingQueue, busySeen, faultsLeft, sigBuf, sigMime, sigOut, ck, tc, sn, extractionCache, LaterVars>>

\* the auto-delete timer (TEMP_FILE_TTL) fires; it is six times the race
\* timeout, so the call has settled by then.  fs.unlink may fail.
autoDelete(job, unlinked) ==
    /\ BagIn(job, jobs) /\ job.pc = "done" /\ job.ttl
    /\ MayFail(~unlinked)
    /\ faultsLeft' = faultsLeft - Faulty(~unlinked)
    /\ jobs' = Replace(job, [job EXCEPT !.ttl = FALSE,
                                        !.tempFile = IF unlinked THEN FALSE ELSE @])
    /\ ev' = Other
    /\ UNCHANGED <<callsLeft, processingQueue, busySeen, sigBuf, sigMime, sigOut, ck, tc, sn, extractionCache, LaterVars>>

\* cleanupExpiredFiles unlinks a file older than TEMP_FILE_TTL: the file of
\* a settled call whose auto-delete timer has already fired or was never set
cleanupExpiredFiles(job) ==
    /\ BagIn(job, jobs) /\ job.pc = "done" /\ job.tempFile /\ ~job.ttl
    /\ jobs' = Replace(job, [job EXCEPT !.tempFile = FALSE])
    /\ ev' = Other
    /\ UNCHANGED <<callsLeft, processingQueue, busySeen, faultsLeft, sigBuf, sigMime, sigOut, ck, tc, sn, extractionCache, LaterVars>>

(***************************************************************************)
(* DocumentChunker: the text model.                                        *)
(*                                                                         *)
(* A document is a sequence of paragraphs separated by blank lines; a      *)
(* paragraph is a run of sentences separated by one space.  Every sentence *)
(* starts with a capital letter and ends with a full stop, so the places   *)
(* where /(?<=[.!?])\s+(?=[A-Z])/ splits are exactly the separators        *)
(* between sentences.  A string is a sequence of pieces; a piece is the    *)
(* characters lo..hi-1 of one sentence of the input, preceded by sep       *)
(* characters of white space (0 none, 1 a space, 2 a blank line).  A piece *)
(* remembers in ov whether addOverlapSecure or getContextStartSecure       *)
(* copied it from the text around a chunk boundary.                        *)
(*                                                                         *)
(* A kind of sentence fixes its length in characters, the number of        *)
(* tokens the encoder yields for it, and the distance between the spaces   *)
(* inside it (0: none; otherwise the characters at the indices             *)
(* space-1, 2*space-1, ... are spaces).  The only sentence-end punctuation *)
(* of a sentence is its last character.                                    *)
(***************************************************************************)
SentenceKinds ==
    ("tiny"  :> [len |-> 8,    tok |-> 2,    space |-> 4])
 @@ ("plain" :> [len |-> 60,   tok |-> 15,   space |-> 6])
 @@ ("dense" :> [len |-> 240,  tok |-> 60,   space |-> 4])
 @@ ("long"  :> [len |-> 800,  tok |-> 200,  space |-> 5])
 @@ ("odd"   :> [len |-> 605,  tok |-> 151,  space |-> 5])
 @@ ("solid" :> [len |-> 6000, tok |-> 1500, space |-> 0])
 @@ ("vast"  :> [len |-> 5242881, tok |-> 1310720, space |-> 8])

Piece(para, sent, kind, lo, hi, sep) ==
    [para |-> para, sent |-> sent, kind |-> kind, lo |-> lo, hi |-> hi, sep |-> sep,
     ov |-> FALSE]

Sentence(para, sent, kind) == <<Piece(para, sent, kind, 0, SentenceKinds[kind].len, 0)>>

RECURSIVE lengthOf(_, _, _)
\* the characters of the pieces lo..hi of a text, their separators included
lengthOf(text, lo, hi) ==
    IF lo > hi THEN 0
    ELSE IF lo = hi THEN text[lo].sep + (text[lo].hi - text[lo].lo)
    ELSE LET mid == (lo + hi) \div 2
         IN lengthOf(text, lo, mid) + lengthOf(text, mid + 1, hi)

\* text.length
length(text) == lengthOf(text, 1, Len(text))

\* a + (a ? sep : '') + b for the separators ' ' (1) and '\n\n' (2)
Concat(a, sep, b) ==
    IF b = <<>> THEN a
    ELSE IF a = <<>> THEN b
    ELSE a \o <<[b[1] EXCEPT !.sep = sep]>> \o Tail(b)

\* tokens of the characters lo..hi-1 of a sentence: the encoder's count for
\* the whole sentence, and a proportional share (rounded up) for a slice
PieceTokens(p) ==
    LET k == SentenceKinds[p.kind]
    IN IF p.hi - p.lo = k.len THEN k.tok
       ELSE (k.tok * (p.hi - p.lo) + k.len - 1) \div k.len

RECURSIVE encode(_, _, _)
\* encoder.encode(text).length over the pieces lo..hi: the tokens of the
\* pieces, and one token for each blank line between them
encode(text, lo, hi) ==
    IF lo > hi THEN 0
    ELSE IF lo = hi THEN PieceTokens(text[lo]) + (IF text[lo].sep = 2 THEN 1 ELSE 0)
    ELSE LET mid == (lo + hi) \div 2
         IN encode(text, lo, mid) + encode(text, mid + 1, hi)

\* tokenCounter.countTokens(text, model), awaited
countTokens(text) == IF text = <<>> THEN 0 ELSE encode(text, 1, Len(text))

RECURSIVE wholePieces(_, _, _, _)
\* the largest k in lo..hi such that the first k pieces of the text take at
\* most n characters
wholePieces(text, n, lo, hi) ==
    IF lo >= hi THEN lo
    ELSE LET mid == (lo + hi + 1) \div 2
         IN IF lengthOf(text, 1, mid) <= n
            THEN wholePieces(text, n, mid, hi)
            ELSE wholePieces(text, n, lo, mid - 1)

\* the first k pieces of a text and, of the piece after them, what fits in
\* room characters, its separator counted
cutAfter(text, k, room) ==
    IF k = Len(text) \/ room <= text[k + 1].sep THEN SubSeq(text, 1, k)
    ELSE Append(SubSeq(text, 1, k),
                [text[k + 1] EXCEPT !.hi = text[k + 1].lo + (room - text[k + 1].sep)])

cutAt(text, n, k) == cutAfter(text, k, n - lengthOf(text, 1, k))

\* text.substring(0, n).trim(), for a text that starts with no white space
substring(text, n) == cutAt(text, n, wholePieces(text, n, 0, Len(text)))

(***************************************************************************)
(* DocumentChunker: the limits set by the constructor, and the splitting   *)
(* of a document into sections and sentences.                              *)
(***************************************************************************)
overlapTokens == 200
MAX_CHUNK_COUNT == 100
MAX_DOCUMENT_LENGTH == 5242880
maxParagraphLength == 3000

\* the value Math.max(1, x) yields for an x that is not a number: the
\* Promise that the unawaited tokenCounter.countTokens call returns
NaN == -1

Min(a, b) == IF a < b THEN a ELSE b

Keep(seq, n) == SubSeq(seq, 1, Min(n, Len(seq)))

\* does /(?<=[.!?])\s+(?=[A-Z])/ match the white space before the piece k of
\* the text: the piece before it ends its sentence, and the piece starts one
splitsBefore(text, k) ==
    /\ k > 1
    /\ text[k - 1].hi = SentenceKinds[text[k - 1].kind].len
    /\ text[k].lo = 0

\* text.split(/(?<=[.!?])\s+(?=[A-Z])/)
splitAtSentenceEnds(text) ==
    LET starts == SelectSeq([k \in 1..Len(text) |-> k], LAMBDA k : k = 1 \/ splitsBefore(text, k))
        last(j) == IF j = Len(starts) THEN Len(text) ELSE starts[j + 1] - 1
    IN [j \in 1..Len(starts) |->
           <<[text[starts[j]] EXCEPT !.sep = 0]>> \o SubSeq(text, starts[j] + 1, last(j))]

splitIntoSentencesSecure(text) ==
    IF text = <<>> \/ length(text) > 50000
    THEN <<substring(text, 50000)>>
    ELSE LET sentences == splitAtSentenceEnds(text)
             longEnough == SelectSeq(sentences, LAMBDA sentence : length(sentence) >= 10)
             shortEnough == SelectSeq(longEnough, LAMBDA sentence : length(sentence) <= 5000)
         IN Keep(shortEnough, 200)

\* sections.push(currentSection.trim()); currentSection = ''
pushSection(st) ==
    [sections |-> Append(st.sections, st.currentSection), currentSection |-> <<>>,
     stopped |-> FALSE]

\* currentSection += (currentSection ? ' ' : '') + sentence, and the
\* sections.length > 50 test that ends the turn
addSentence(st, sentence) ==
    [st EXCEPT !.currentSection = Concat(@, 1, sentence), !.stopped = Len(st.sections) > 50]

\* one turn of the loop of splitLongParagraphSecure; stopped: the loop broke
packSentence(st, sentence, maxLength) ==
    IF st.stopped THEN st
    ELSE IF length(st.currentSection) + length(sentence) > maxLength /\ st.currentSection # <<>>
    THEN addSentence(pushSection(st), sentence)
    ELSE addSentence(st, sentence)

RECURSIVE packSentences(_, _, _, _, _)
\* the turns lo..hi of the loop of splitLongParagraphSecure
packSentences(st, sentences, lo, hi, maxLength) ==
    IF lo > hi THEN st
    ELSE IF lo = hi THEN packSentence(st, sentences[lo], maxLength)
    ELSE LET mid == (lo + hi) \div 2
             half == packSentences(st, sentences, lo, mid, maxLength)
         IN IF half.stopped THEN half ELSE packSentences(half, sentences, mid + 1, hi, maxLength)

\* the push that follows the loop of splitLongParagraphSecure
finalSections(st) == IF st.currentSection # <<>> THEN pushSection(st).sections ELSE st.sections

packAll(sentences, maxLength) ==
    finalSections(packSentences([sections |-> <<>>, currentSection |-> <<>>, stopped |-> FALSE],
                                sentences, 1, Len(sentences), maxLength))

splitLongParagraphSecure(paragraph, maxLength) ==
    packAll(splitIntoSentencesSecure(paragraph), maxLength)

RECURSIVE refineSections(_, _)
\* the loop of splitIntoSectionsSecure over the paragraphs it kept
refineSections(sections, refinedSections) ==
    IF sections = <<>> THEN refinedSections
    ELSE LET section == sections[1]
             refined1 == IF length(section) <= maxParagraphLength
                         THEN Append(refinedSections, section)
                         ELSE refinedSections \o splitLongParagraphSecure(section, maxParagraphLength)
         IN IF Len(refined1) > MAX_CHUNK_COUNT * 2
            THEN refined1
            ELSE refineSections(Tail(sections), refined1)

\* content is the sequence of the paragraphs that /\n\s*\n/ yields
splitIntoSectionsSecure(content) ==
    LET sections == SelectSeq(content, LAMBDA section : length(section) >= 10)
        refinedSections == refineSections(sections, <<>>)
    IN SelectSeq(refinedSections, LAMBDA section : length(section) > 0)

(***************************************************************************)
(* DocumentChunker: chunks.                                                *)
(***************************************************************************)
\* the null that createChunkSecure returns for an empty text; validateChunks
\* treats it as it treats a chunk without text
Null == [index |-> 0, text |-> <<>>, tokenCount |-> 0, characterCount |-> 0]

\* the chunk that createChunkSecure returns for a trimmed text
chunkOf(cleanText, tokenCount, index) ==
    IF cleanText = <<>> THEN Null
    ELSE [index |-> index,
          text |-> cleanText,
          tokenCount |-> IF tokenCount = NaN THEN NaN
                         ELSE IF tokenCount > 1 THEN tokenCount ELSE 1,
          characterCount |-> length(cleanText)]

createChunkSecure(text, tokenCount, index) ==
    IF length(text) > 100000
    THEN chunkOf(substring(text, 100000), tokenCount, index)
    ELSE chunkOf(text, tokenCount, index)

\* is the character at index i of a sentence of this kind a space
IsSpace(kind, i) ==
    LET k == SentenceKinds[kind]
    IN k.space > 0 /\ i >= 0 /\ i < k.len - 1 /\ (i + 1) % k.space = 0

\* text.lastIndexOf(' ', end) for a text that is one piece
lastIndexOfSpace(p, end) ==
    LET n == p.hi - p.lo
        from == p.lo + Min(end, n - 1)
    IN IF IsSpace(p.kind, from) THEN from - p.lo
       ELSE LET k == SentenceKinds[p.kind]
                m == IF k.space = 0 THEN 0 ELSE (from + 1) \div k.space
                i == IF m * k.space = k.len THEN (m - 1) * k.space - 1 ELSE m * k.space - 1
            IN IF i >= p.lo /\ IsSpace(p.kind, i) THEN i - p.lo ELSE -1

\* the largest of text.lastIndexOf('.' | '!' | '?', end) for a text that is
\* one piece: the sentence's last character if the search reaches it
lastIndexOfPunct(p, end) ==
    LET n == p.hi - p.lo
        from == p.lo + Min(end, n - 1)
    IN IF from = SentenceKinds[p.kind].len - 1 THEN from - p.lo ELSE -1

\* text.substring(start, end).trim() for a text that is one piece
slice(p, start, end) ==
    LET a == IF IsSpace(p.kind, p.lo + start) THEN start + 1 ELSE start
        b == IF IsSpace(p.kind, p.lo + end - 1) THEN end - 1 ELSE end
    IN IF a >= b THEN <<>> ELSE <<[p EXCEPT !.lo = p.lo + a, !.hi = p.lo + b, !.sep = 0]>>

RECURSIVE characterChunks(_, _, _, _, _)
\* the loop of splitByCharacterLimitSecure; the tokenCount of a slice is the
\* Promise of a countTokens call that nothing awaits
characterChunks(p, maxChars, start, attempts, chunks) ==
    IF ~(start < p.hi - p.lo /\ attempts < 20) THEN chunks
    ELSE LET n == p.hi - p.lo
             end0 == Min(start + maxChars, n)
             lastSpace == lastIndexOfSpace(p, end0)
             lastPunct == lastIndexOfPunct(p, end0)
             end == IF end0 < n
                    THEN IF 2 * (lastPunct - start) > maxChars THEN lastPunct + 1
                         ELSE IF 10 * (lastSpace - start) > 3 * maxChars THEN lastSpace
                         ELSE end0
                    ELSE end0
             chunk == slice(p, start, end)
             chunks1 == IF length(chunk) >= 10
                        THEN Append(chunks, [text |-> chunk, tokenCount |-> NaN])
                        ELSE chunks
         IN characterChunks(p, maxChars, end, attempts + 1, chunks1)

\* the sentences that reach it are single pieces: one sentence of the
\* input, or what the 50000 character cut left of it
splitByCharacterLimitSecure(text, maxTokens) ==
    characterChunks(text[1], Min(maxTokens * 3, 10000), 0, 0, <<>>)

\* chunks.push(...characterChunks.map(chunk => createChunkSecure(..., chunkIndex++)))
pushCharacterChunks(chunks, parts, chunkIndex) ==
    chunks \o [k \in 1..Len(parts) |->
                  createChunkSecure(parts[k].text, parts[k].tokenCount, chunkIndex + k - 1)]

\* chunks.push(createChunkSecure(currentChunk, currentTokens, chunkIndex)),
\* chunkIndex++, and an empty current chunk
pushCurrent(st) ==
    [chunks |-> Append(st.chunks, createChunkSecure(st.currentChunk, st.currentTokens, st.chunkIndex)),
     currentChunk |-> <<>>,
     currentTokens |-> 0,
     chunkIndex |-> st.chunkIndex + 1,
     stopped |-> FALSE]

\* the character chunks of an oversized sentence join the chunks
pushParts(st, parts) ==
    [st EXCEPT !.chunks = pushCharacterChunks(@, parts, st.chunkIndex),
               !.chunkIndex = @ + Len(parts)]

\* the sentence joins the current chunk, and the chunks.length test that
\* ends the turn
addToCurrent(st, sentence, sentenceTokens) ==
    [st EXCEPT !.currentChunk = Concat(@, 1, sentence),
               !.currentTokens = @ + sentenceTokens,
               !.stopped = Len(st.chunks) >= MAX_CHUNK_COUNT - 5]

splitCounted(st, sentence, sentenceTokens, maxTokens) ==
    IF sentenceTokens > maxTokens
    THEN pushParts(IF st.currentChunk # <<>> THEN pushCurrent(st) ELSE st,
                   splitByCharacterLimitSecure(sentence, maxTokens))
    ELSE IF st.currentTokens + sentenceTokens > maxTokens /\ st.currentChunk # <<>>
    THEN addToCurrent(pushCurrent(st), sentence, sentenceTokens)
    ELSE addToCurrent(st, sentence, sentenceTokens)

\* one turn of the loop of splitLargeSectionSecure; stopped: the loop broke
splitSentence(st, sentence, maxTokens) ==
    IF st.stopped \/ sentence = <<>> THEN st
    ELSE splitCounted(st, sentence, countTokens(sentence), maxTokens)

RECURSIVE splitSentences(_, _, _, _, _)
\* the turns lo..hi of the loop of splitLargeSectionSecure
splitSentences(st, sentences, lo, hi, maxTokens) ==
    IF lo > hi THEN st
    ELSE IF lo = hi THEN splitSentence(st, sentences[lo], maxTokens)
    ELSE LET mid == (lo + hi) \div 2
             half == splitSentences(st, sentences, lo, mid, maxTokens)
         IN IF half.stopped THEN half ELSE splitSentences(half, sentences, mid + 1, hi, maxTokens)

\* the push that follows the loop of splitLargeSectionSecure
finalChunks(st) == IF st.currentChunk # <<>> THEN pushCurrent(st).chunks ELSE st.chunks

splitAll(sentences, maxTokens, startIndex) ==
    finalChunks(splitSentences([chunks |-> <<>>, currentChunk |-> <<>>, currentTokens |-> 0,
                                chunkIndex |-> startIndex, stopped |-> FALSE],
                               sentences, 1, Len(sentences), maxTokens))

splitLargeSectionSecure(section, maxTokens, startIndex) ==
    splitAll(splitIntoSentencesSecure(section), maxTokens, startIndex)

\* the text, as a copy made for overlap
Copied(text) == [k \in 1..Len(text) |-> [text[k] EXCEPT !.ov = TRUE]]

RECURSIVE takeWithinOverlap(_, _, _)
\* the loops of addOverlapSecure and getContextStartSecure: the sentences,
\* in order, up to the first one that takes the sum over overlapTokens
takeWithinOverlap(sentences, taken, tokens) ==
    IF sentences = <<>> THEN taken
    ELSE LET sentence == sentences[1]
             sentenceTokens == countTokens(sentence)
         IN IF sentence = <<>> THEN takeWithinOverlap(Tail(sentences), taken, tokens)
            ELSE IF tokens + sentenceTokens <= overlapTokens
            THEN takeWithinOverlap(Tail(sentences), Concat(taken, 1, Copied(sentence)),
                                   tokens + sentenceTokens)
            ELSE taken

addOverlapSecure(currentChunk, previousSection) ==
    IF previousSection = <<>> \/ overlapTokens <= 0 THEN currentChunk
    ELSE LET sentences == splitIntoSentencesSecure(previousSection)
             first == IF Len(sentences) > 5 THEN Len(sentences) - 5 ELSE 0
             overlap == takeWithinOverlap(SubSeq(sentences, first + 1, Len(sentences)), <<>>, 0)
         IN IF overlap # <<>> THEN Concat(overlap, 2, currentChunk) ELSE currentChunk

getContextStartSecure(text) ==
    IF text = <<>> THEN <<>>
    ELSE takeWithinOverlap(Keep(splitIntoSentencesSecure(text), 3), <<>>, 0)

validChunk(chunk, maxTokens) ==
    /\ chunk # Null
    /\ chunk.text # <<>>
    /\ chunk.tokenCount > 0 /\ 10 * chunk.tokenCount <= 11 * maxTokens

\* validateChunks without its final slice(0, MAX_CHUNK_COUNT)
validateChunksUncapped(chunks, maxTokens) ==
    LET validChunks == SelectSeq(chunks, LAMBDA chunk : validChunk(chunk, maxTokens))
        withText == SelectSeq(chunks, LAMBDA c : c # Null /\ c.text # <<>>)
    IN IF Len(validChunks) = 0 /\ Len(chunks) > 0 /\ withText # <<>>
       THEN <<withText[1]>>
       ELSE validChunks

validateChunks(chunks, maxTokens) ==
    LET validChunks == SelectSeq(chunks, LAMBDA chunk : validChunk(chunk, maxTokens))
        withText == SelectSeq(chunks, LAMBDA c : c # Null /\ c.text # <<>>)
    IN IF Len(validChunks) = 0 /\ Len(chunks) > 0 /\ withText # <<>>
       THEN <<withText[1]>>
       ELSE Keep(validChunks, MAX_CHUNK_COUNT)

CkIdle == [pc |-> "idle"]
TcIdle == [stage |-> "idle"]
SnIdle == [pc |-> "idle"]
ApIdle == [pc |-> "idle"]
NmIdle == [pc |-> "idle"]
FxIdle == [pc |-> "idle"]
RtIdle == [pc |-> "idle"]
SlIdle == [pc |-> "idle"]
LaterIdle == ap = ApIdle /\ nm = NmIdle /\ fx = FxIdle /\ rt = RtIdle /\ sl = SlIdle

(***************************************************************************)
(* DocumentChunker.chunkDocument: one call, a step for each turn of the    *)
(* loop of performChunking.  The awaits inside a turn wait for the token   *)
(* counter only, which touches none of the chunker's state, so a turn is   *)
(* one step.  The 30 s timer that chunkDocument races against the loop is  *)
(* left out: the loop yields to no timer once the counter is initialised.  *)
(***************************************************************************)
MaxParas == 2
MaxRun == 120

\* a paragraph: n sentences of one kind, a space between them
Run(para, kind, n) ==
    [sent \in 1..n |-> Piece(para, sent, kind, 0, SentenceKinds[kind].len, IF sent = 1 THEN 0 ELSE 1)]

Kinds == {"tiny", "plain", "dense", "long", "solid"}
Runs == {1, MaxRun}
Shapes == Kinds \X Runs

Document(shapes) == [para \in 1..Len(shapes) |-> Run(para, shapes[para][1], shapes[para][2])]

Documents == {Document(shapes) : shapes \in UNION {[1..n -> Shapes] : n \in 1..MaxParas}}

RECURSIVE contentLength(_, _, _)
\* content.length: the paragraphs lo..hi and the blank lines between them
contentLength(content, lo, hi) ==
    IF lo > hi THEN 0
    ELSE IF lo = hi THEN length(content[lo])
    ELSE LET mid == (lo + hi) \div 2
         IN contentLength(content, lo, mid) + 2 + contentLength(content, mid + 1, hi)

\* a call: content, the offset of the last character of the match of a
\* suspicious pattern that ends first in it (-1: none), maxTokens, and the
\* model name.  maxTokens is a number; if
\* Number.isInteger(maxTokens) is false the field holds Math.floor of it
Input(content, suspiciousAt, maxTokens, model) ==
    [content |-> content, suspiciousAt |-> suspiciousAt, maxTokens |-> maxTokens, model |-> model,
     isInteger |-> TRUE]

\* the call with maxTokens + 0.5 in the place of maxTokens
Fractional(input) == [input EXCEPT !.isInteger = FALSE]

Vast == <<Sentence(1, 1, "vast")>>

Limits == {100, 6000, 32000}

ChunkInputs ==
    {Input(content, -1, maxTokens, "gpt-4") : content \in Documents, maxTokens \in Limits}
    \cup {Input(Document(<<<<kind, 3>>>>), -1, maxTokens, "gpt-4") : kind \in Kinds, maxTokens \in Limits}
    \cup {Input(Document(<<<<"plain", 3>>, <<kind, 3>>>>), -1, maxTokens, "gpt-4") :
              kind \in Kinds, maxTokens \in Limits}
    \cup {Input(Document(<<<<kind, 3>>>>), -1, maxTokens, "gpt-4") :
              kind \in {"plain", "long"}, maxTokens \in {50, 99, 32001}}
    \cup {Fractional(Input(Document(<<<<kind, 3>>>>), -1, 150, "gpt-4")) : kind \in {"plain", "long"}}
    \cup {Input(Document(<<<<"plain", 4>>, <<"dense", 1>>>>), -1, 100, "gpt-4")}
    \cup {Input(Document(<<<<"odd", 1>>>>), -1, maxTokens, "gpt-4") : maxTokens \in {100, 150}}
    \cup {Input(Document(<<<<"solid", 3>>>>), at, 6000, "gpt-4") : at \in {10, 9999, 10000}}
    \cup {Input(<<>>, -1, 6000, "gpt-4"), Input(Vast, -1, 6000, "gpt-4"),
          Input(Document(<<<<"plain", 3>>>>), -1, 6000, "")}

\* pattern.test(content.substring(0, 10000)) for one of the suspiciousPatterns,
\* given the offset of the last character of its first match (-1: no match)
hasHarmfulPattern(at) == at >= 0 /\ at < 10000

\* a validateInput that takes any maxTokens
validateInputAnyLimit(input) ==
    IF input.content = <<>> THEN "Content must be a non-empty string"
    ELSE IF contentLength(input.content, 1, Len(input.content)) > MAX_DOCUMENT_LENGTH THEN "Document too large"
    ELSE IF input.model = "" THEN "Model must be specified"
    ELSE IF hasHarmfulPattern(input.suspiciousAt)
    THEN "Content contains potentially harmful patterns"
    ELSE "ok"

\* "ok", or the message of the Error that validateInput throws
validateInput(input) ==
    IF input.content = <<>> THEN "Content must be a non-empty string"
    ELSE IF contentLength(input.content, 1, Len(input.content)) > MAX_DOCUMENT_LENGTH THEN "Document too large"
    ELSE IF ~input.isInteger \/ input.maxTokens < 100 \/ input.maxTokens > 32000
    THEN "maxTokens must be an integer between 100 and 32000"
    ELSE IF input.model = "" THEN "Model must be specified"
    ELSE IF hasHarmfulPattern(input.suspiciousAt)
    THEN "Content contains potentially harmful patterns"
    ELSE "ok"

NoStats == [totalDocuments |-> 0, totalChunks |-> 0]

CkCalled(input) ==
    [pc |-> "called", input |-> input, sections |-> <<>>, i |-> 0, chunks |-> <<>>,
     currentChunk |-> <<>>, currentTokens |-> 0, chunkIndex |-> 1, warned |-> "none",
     result |-> <<>>, error |-> "none", chunkingStats |-> NoStats]

CoordinatorVars ==
    <<jobs, callsLeft, processingQueue, ev, busySeen, faultsLeft, sigBuf, sigMime, sigOut,
      tc, sn, extractionCache, LaterVars>>

\* chunkDocument up to the loop of performChunking
chunkDocument ==
    /\ ck.pc = "called"
    /\ LET verdict == validateInput(ck.input)
           sections == splitIntoSectionsSecure(ck.input.content)
       IN ck' = IF verdict # "ok"
                THEN [ck EXCEPT !.pc = "threw", !.error = verdict]
                ELSE [ck EXCEPT !.pc = IF sections = <<>> THEN "final" ELSE "loop",
                                !.sections = sections]
    /\ UNCHANGED CoordinatorVars

\* the end of the turn for sections[i]: the loop breaks, goes on, or is over
endTurn(c, stops, warning) ==
    [c EXCEPT !.warned = IF stops THEN warning ELSE @,
              !.i = @ + 1,
              !.pc = IF stops \/ c.i + 1 >= Len(c.sections) THEN "final" ELSE "loop"]

\* chunks.push(createChunkSecure(currentChunk, currentTokens, chunkIndex)),
\* chunkIndex++, and an empty current chunk
saveCurrentChunk(c) ==
    [c EXCEPT !.chunks = Append(@, createChunkSecure(c.currentChunk, c.currentTokens, c.chunkIndex)),
              !.chunkIndex = @ + 1,
              !.currentChunk = <<>>,
              !.currentTokens = 0]

pushSubChunks(c, subChunks) ==
    [c EXCEPT !.chunks = @ \o subChunks, !.chunkIndex = @ + Len(subChunks)]

splitSection(c) ==
    pushSubChunks(c, splitLargeSectionSecure(c.sections[c.i + 1], c.input.maxTokens, c.chunkIndex))

stopIfOver(c, limit, warning) == endTurn(c, Len(c.chunks) > limit, warning)

\* a turn of the loop for a section of more than maxTokens tokens
oversizedSection ==
    /\ ck.pc = "loop"
    /\ countTokens(ck.sections[ck.i + 1]) > ck.input.maxTokens
    /\ ck' = stopIfOver(splitSection(IF ck.currentChunk # <<>> THEN saveCurrentChunk(ck) ELSE ck),
                        MAX_CHUNK_COUNT, "maximum")
    /\ UNCHANGED CoordinatorVars

\* the chunk that closes takes its overlap, and the next one starts with
\* the context and the section
startNewChunk(c, chunkWithOverlap, currentChunk) ==
    [c EXCEPT !.chunks = Append(@, createChunkSecure(chunkWithOverlap, c.currentTokens, c.chunkIndex)),
              !.chunkIndex = @ + 1,
              !.currentChunk = currentChunk,
              !.currentTokens = countTokens(currentChunk)]

previousSection(c) == IF c.i >= 1 THEN c.sections[c.i] ELSE <<>>

fits(c, sectionTokens) == sectionTokens <= c.input.maxTokens

overflows(c, sectionTokens) ==
    c.currentTokens + sectionTokens > c.input.maxTokens /\ c.currentChunk # <<>>

\* a turn of the loop for a section that does not fit the current chunk
closeChunk ==
    /\ ck.pc = "loop"
    /\ fits(ck, countTokens(ck.sections[ck.i + 1]))
    /\ overflows(ck, countTokens(ck.sections[ck.i + 1]))
    /\ ck' = stopIfOver(startNewChunk(ck,
                                      addOverlapSecure(ck.currentChunk, previousSection(ck)),
                                      Concat(getContextStartSecure(ck.currentChunk), 2,
                                             ck.sections[ck.i + 1])),
                        MAX_CHUNK_COUNT - 10, "approaching")
    /\ UNCHANGED CoordinatorVars

addSection(c, section, sectionTokens) ==
    [c EXCEPT !.currentChunk = Concat(@, 2, section), !.currentTokens = @ + sectionTokens]

\* a turn of the loop for a section that joins the current chunk
appendSection ==
    /\ ck.pc = "loop"
    /\ fits(ck, countTokens(ck.sections[ck.i + 1]))
    /\ ~overflows(ck, countTokens(ck.sections[ck.i + 1]))
    /\ ck' = stopIfOver(addSection(ck, ck.sections[ck.i + 1], countTokens(ck.sections[ck.i + 1])),
                        MAX_CHUNK_COUNT - 10, "approaching")
    /\ UNCHANGED CoordinatorVars

updateStats(stats, chunks) ==
    [totalDocuments |-> stats.totalDocuments + 1,
     totalChunks |-> stats.totalChunks + Len(chunks)]

\* chunkDocument from validateChunks on
returnValidated(c, validatedChunks) ==
    [c EXCEPT !.result = validatedChunks,
              !.chunkingStats = updateStats(@, validatedChunks),
              !.pc = "returned"]

\* chunks.push(createChunkSecure(currentChunk, currentTokens, chunkIndex))
pushFinalChunk(c) ==
    [c EXCEPT !.chunks = Append(@, createChunkSecure(c.currentChunk, c.currentTokens, c.chunkIndex))]

validated(c) == returnValidated(c, validateChunks(c.chunks, c.input.maxTokens))

\* the end of performChunking, and chunkDocument from validateChunks on
returnChunks ==
    /\ ck.pc = "final"
    /\ ck' = validated(IF ck.currentChunk # <<>> THEN pushFinalChunk(ck) ELSE ck)
    /\ UNCHANGED CoordinatorVars

CkInit ==
    /\ jobs = EmptyBag
    /\ callsLeft = 0
    /\ processingQueue = <<>>
    /\ ev = NoEvent
    /\ busySeen = FALSE
    /\ faultsLeft = 0
    /\ sigBuf = <<>> /\ sigMime = TXT /\ sigOut = "none"
    /\ ck \in {CkCalled(input) : input \in ChunkInputs}
    /\ tc = TcIdle /\ sn = SnIdle /\ extractionCache = <<>> /\ LaterIdle

NextChunk == chunkDocument \/ oversizedSection \/ closeChunk \/ appendSection \/ returnChunks

SpecChunk == CkInit /\ [][NextChunk]_vars


InitWith(n) ==
    /\ jobs = EmptyBag
    /\ callsLeft = n
    /\ processingQueue = <<>>
    /\ ev = NoEvent
    /\ busySeen = FALSE
    /\ faultsLeft = MaxFaults
    /\ sigBuf = <<>> /\ sigMime = TXT /\ sigOut = "none"
    /\ ck = CkIdle
    /\ tc = TcIdle /\ sn = SnIdle /\ extractionCache = <<>> /\ LaterIdle

Init == InitWith(NumJobs)

Call == \E c \in CallInputs : processFile(c[1], c[2], c[3])
WriteDone == \E j \in BagToSet(jobs) : writeFileDone(j)
WriteFails == \E j \in BagToSet(jobs), partial \in BOOLEAN : writeFileFails(j, partial)
Settle ==
    \E j \in BagToSet(jobs), x \in Extractions, u \in BOOLEAN : extractionSettles(j, x, u)
RaceTimeout == \E j \in BagToSet(jobs), u \in BOOLEAN : raceTimeout(j, u)
Deadline == \E j \in BagToSet(jobs) : deadlineTimer(j)
AutoDelete == \E j \in BagToSet(jobs), u \in BOOLEAN : autoDelete(j, u)
Sweep == \E j \in BagToSet(jobs) : cleanupExpiredFiles(j)

Next ==
    \/ Call
    \/ WriteDone
    \/ WriteFails
    \/ Settle
    \/ RaceTimeout
    \/ Deadline
    \/ AutoDelete
    \/ Sweep

Spec == Init /\ [][Next]_vars

\* Timers fire; nothing obliges an extraction or a write to settle, and
\* nothing obliges the environment to call.
InitLive == InitWith(LiveJobs)
SpecLive ==
    /\ InitLive /\ [][Next]_vars
    /\ WF_vars(Deadline) /\ WF_vars(RaceTimeout)
    /\ WF_vars(AutoDelete) /\ WF_vars(Sweep)

(***************************************************************************)
(* The validation applied to one buffer head and one declared type, with   *)
(* a valid name, a size within the limit and no blacklisted pattern.       *)
(***************************************************************************)
SigBytes == {37, 80, 68, 70, 75, 3, 4}
SigHeads == UNION { [1..n -> SigBytes] : n \in 0..MaxBufLen }
SigMimes == {PDF, DOCX, XLSX, PPTX, TXT, "image/png"}

InitSig ==
    /\ jobs = EmptyBag
    /\ callsLeft = 0
    /\ processingQueue = <<>>
    /\ ev = NoEvent
    /\ busySeen = FALSE
    /\ faultsLeft = 0
    /\ sigBuf \in SigHeads /\ sigMime \in SigMimes /\ sigOut = "none"
    /\ ck = CkIdle
    /\ tc = TcIdle /\ sn = SnIdle /\ extractionCache = <<>> /\ LaterIdle

CheckSignature ==
    /\ sigOut = "none"
    /\ sigOut' = validateFileSecurely(Buffer(sigBuf, Len(sigBuf), "none", 0), GoodName, sigMime)
    /\ UNCHANGED <<jobs, callsLeft, processingQueue, ev, busySeen, faultsLeft, sigBuf, sigMime, ck, tc, sn, extractionCache, LaterVars>>

NextSig == CheckSignature

SpecSig == InitSig /\ [][NextSig]_vars

(***************************************************************************)
(* UniversalTokenCounter.                                                  *)
(*                                                                         *)
(* The constructor starts initialize().  loadOpenAIEncoders has no await   *)
(* inside, so the encoders are set before the constructor returns; the     *)
(* model database and the pricing are loaded in later turns of the         *)
(* microtask queue, and then initializationPromise resolves.  The tiktoken *)
(* encoding of 'gpt-4' loads; that of another model may fail to load and   *)
(* is then replaced by it.  An encoder throws on a text that holds a       *)
(* special token.  A call suspends at `await this.initializationPromise`   *)
(* and runs from there to its return in one step: the awaits that follow   *)
(* settle in turn and nothing that runs between them writes what the call  *)
(* reads.  The cost fields of an analysis are left out.                    *)
(***************************************************************************)
MaxCalls == 3      \* calls made on the counter in one behaviour
MaxUpdates == 1    \* calls of updatePricing in one behaviour

\* a text: its length and what each encoding makes of it
TcText(len, cl100k, o200k, special) ==
    [length |-> len, cl100k_base |-> cl100k, o200k_base |-> o200k, special |-> special]

TcTexts == {TcText(0, 0, 0, FALSE), TcText(44, 10, 9, FALSE), TcText(30, 7, 6, TRUE)}

TcModels ==
    {"gpt-4o", "gpt4", "opus", "Claude-3-Opus ", "gpt-3.5-turbo-16k", "my-model",
     "gpt-4o-2024-05-13"}

openaiModels ==
    {"gpt-4", "gpt-4-turbo", "gpt-4o", "gpt-4o-mini", "gpt-3.5-turbo", "gpt-3.5-turbo-16k"}

\* tiktoken.encoding_for_model(model): the name of the encoding
encoding_for_model(model) ==
    IF model \in {"gpt-4o", "gpt-4o-mini"} THEN "o200k_base" ELSE "cl100k_base"

\* this.encoders after loadOpenAIEncoders, given the models whose encoding
\* failed to load
loadOpenAIEncoders(failed) ==
    [model \in openaiModels |->
        IF model \in failed THEN encoding_for_model("gpt-4") ELSE encoding_for_model(model)]

fallbackEncoder == encoding_for_model("gpt-4")

\* approximationRatio in hundredths
ModelSpec(provider, contextWindow, hasEncoder, approximationRatio) ==
    [provider |-> provider, contextWindow |-> contextWindow, hasEncoder |-> hasEncoder,
     approximationRatio |-> approximationRatio]

modelSpecs ==
    ("gpt-4" :> ModelSpec("openai", 8192, TRUE, 100))
 @@ ("gpt-4-turbo" :> ModelSpec("openai", 128000, TRUE, 100))
 @@ ("gpt-4o" :> ModelSpec("openai", 128000, TRUE, 100))
 @@ ("gpt-4o-mini" :> ModelSpec("openai", 128000, TRUE, 100))
 @@ ("gpt-3.5-turbo" :> ModelSpec("openai", 4096, TRUE, 100))
 @@ ("claude-3-opus" :> ModelSpec("anthropic", 200000, FALSE, 120))
 @@ ("claude-3-sonnet" :> ModelSpec("anthropic", 200000, FALSE, 120))
 @@ ("claude-3-haiku" :> ModelSpec("anthropic", 200000, FALSE, 120))
 @@ ("claude-3.5-sonnet" :> ModelSpec("anthropic", 200000, FALSE, 120))
 @@ ("gemini-1.5-pro" :> ModelSpec("google", 2000000, FALSE, 80))
 @@ ("gemini-1.5-flash" :> ModelSpec("google", 1000000, FALSE, 80))
 @@ ("gemini-pro" :> ModelSpec("google", 32768, FALSE, 80))
 @@ ("deepseek-chat" :> ModelSpec("deepseek", 32768, FALSE, 100))
 @@ ("deepseek-coder" :> ModelSpec("deepseek", 16384, FALSE, 100))
 @@ ("mistral-large" :> ModelSpec("mistral", 32768, FALSE, 110))
 @@ ("mistral-medium" :> ModelSpec("mistral", 32768, FALSE, 110))
 @@ ("llama-3-70b" :> ModelSpec("meta", 8192, FALSE, 90))
 @@ ("llama-3-8b" :> ModelSpec("meta", 8192, FALSE, 90))

aliases ==
    ("gpt-4" :> {"gpt4", "gpt-4-0613"})
 @@ ("gpt-4-turbo" :> {"gpt-4-turbo-preview", "gpt-4-1106-preview"})
 @@ ("gpt-4o" :> {"gpt-4o-2024-05-13"})
 @@ ("gpt-3.5-turbo" :> {"gpt3.5", "gpt-3.5", "gpt-3.5-turbo-0613"})
 @@ ("claude-3-opus" :> {"claude-opus", "opus"})
 @@ ("claude-3-sonnet" :> {"claude-sonnet", "sonnet"})
 @@ ("claude-3-haiku" :> {"claude-haiku", "haiku"})
 @@ ("claude-3.5-sonnet" :> {"claude-3.5", "claude-3.5-sonnet-20241022"})
 @@ ("gemini-1.5-pro" :> {"gemini-pro-1.5", "gemini-1.5"})
 @@ ("gemini-pro" :> {"gemini", "gemini-pro-vision"})

\* the keys of this.modelDatabase after loadModelDatabase
loadModelDatabase == DOMAIN modelSpecs \cup UNION {aliases[modelId] : modelId \in DOMAIN aliases}

\* this.modelDatabase.get(key) for a key of the database
modelDatabaseGet(key) ==
    IF key \in DOMAIN modelSpecs THEN modelSpecs[key]
    ELSE modelSpecs[CHOOSE modelId \in DOMAIN aliases : key \in aliases[modelId]]

\* model.toLowerCase().trim(), for the model names of TcModels
normalizeModelName(model) == IF model = "Claude-3-Opus " THEN "claude-3-opus" ELSE model

\* what a call comes to: it throws, or returns a count (countTokens) or an
\* analysis (analyzeText)
Outcome(threw, tokenCount, provider, contextWindow, accuracy) ==
    [threw |-> threw, tokenCount |-> tokenCount, provider |-> provider,
     contextWindow |-> contextWindow, accuracy |-> accuracy]
Threw == Outcome(TRUE, 0, "", 0, "")
Counted(n) == Outcome(FALSE, n, "", 0, "")

\* encoder.encode(text).length
encodedLength(encoder, text) == IF text.special THEN Threw ELSE Counted(text[encoder])

\* a fallbackTokenCount without its try/catch
fallbackTokenCountUncaught(text) == encodedLength(fallbackEncoder, text)

fallbackTokenCount(text) ==
    IF encodedLength(fallbackEncoder, text).threw
    THEN Counted((text.length + 3) \div 4)
    ELSE encodedLength(fallbackEncoder, text)

\* Math.round(baseTokens * approximationRatio)
approximate(base, modelSpec) ==
    IF base.threw THEN Threw ELSE Counted((base.tokenCount * modelSpec.approximationRatio + 50) \div 100)

\* countTokens from the await of initializationPromise on
UniversalTokenCounter_countTokens(c, text, model) ==
    IF text.length = 0 THEN Counted(0)
    ELSE IF normalizeModelName(model) \notin c.modelDatabase THEN fallbackTokenCount(text)
    ELSE IF modelDatabaseGet(normalizeModelName(model)).hasEncoder
    THEN encodedLength(IF normalizeModelName(model) \in DOMAIN c.encoders
                       THEN c.encoders[normalizeModelName(model)]
                       ELSE fallbackEncoder,
                       text)
    ELSE approximate(encodedLength(fallbackEncoder, text), modelDatabaseGet(normalizeModelName(model)))

\* the analysis for a count
analysisOf(c, counted, normalizedModel) ==
    IF counted.threw THEN Threw
    ELSE IF normalizedModel \in c.modelDatabase
    THEN Outcome(FALSE, counted.tokenCount,
                 modelDatabaseGet(normalizedModel).provider,
                 modelDatabaseGet(normalizedModel).contextWindow,
                 IF modelDatabaseGet(normalizedModel).hasEncoder THEN "exact" ELSE "approximation")
    ELSE Outcome(FALSE, counted.tokenCount, "unknown", 8192, "approximation")

\* analyzeText from the await of initializationPromise on
UniversalTokenCounter_analyzeText(c, text, model) ==
    analysisOf(c, UniversalTokenCounter_countTokens(c, text, model), normalizeModelName(model))

TcCall(op, text, model) == [op |-> op, text |-> text, model |-> model]
NoCall == TcCall("none", TcText(0, 0, 0, FALSE), "")

\* the counter when its constructor has returned; subject is the (text,
\* model) whose calls the behaviour follows, and returned lists what the
\* countTokens calls for it have returned so far
TcConstructed(failed, subject) ==
    [stage |-> "constructed",
     encoders |-> loadOpenAIEncoders(failed),
     modelDatabase |-> {},
     pricingLastUpdated |-> 0,
     subject |-> subject,
     pending |-> {},
     callsLeft |-> MaxCalls,
     updatesLeft |-> MaxUpdates,
     returned |-> <<>>,
     last |-> NoCall,
     outcome |-> Threw]

\* the other calls in flight: one more text and model
TcOthers == {TcCall("analyzeText", TcText(44, 10, 9, FALSE), "my-model"),
             TcCall("countTokens", TcText(30, 7, 6, TRUE), "gpt-4o")}

TcCalls(subject) ==
    {TcCall(op, subject[1], subject[2]) : op \in {"countTokens", "analyzeText"}} \cup TcOthers

ChunkerVars ==
    <<jobs, callsLeft, processingQueue, ev, busySeen, faultsLeft, sigBuf, sigMime, sigOut,
      ck, sn, extractionCache, LaterVars>>

\* initialize() resumes after loadOpenAIEncoders
initializeDatabase ==
    /\ tc.stage = "constructed"
    /\ tc' = [tc EXCEPT !.stage = "database", !.modelDatabase = loadModelDatabase]
    /\ UNCHANGED ChunkerVars

\* initialize() resumes after loadModelDatabase, loads the pricing and
\* returns: initializationPromise resolves
initializePricing ==
    /\ tc.stage = "database"
    /\ tc' = [tc EXCEPT !.stage = "ready", !.pricingLastUpdated = @ + 1]
    /\ UNCHANGED ChunkerVars

updatePricing ==
    /\ tc.stage # "idle" /\ tc.updatesLeft > 0
    /\ tc' = [tc EXCEPT !.updatesLeft = @ - 1, !.pricingLastUpdated = @ + 1]
    /\ UNCHANGED ChunkerVars

\* countTokens or analyzeText is called and suspends at its first await
tcCall(call) ==
    /\ tc.stage # "idle" /\ tc.callsLeft > 0
    /\ call \in TcCalls(tc.subject)
    /\ tc' = [tc EXCEPT !.callsLeft = @ - 1, !.pending = @ \cup {call}]
    /\ UNCHANGED ChunkerVars

\* a call that does not wait for initializationPromise
initializedNever(stage) == TRUE

\* `await this.initializationPromise` lets the call go on
initialized(stage) == stage = "ready"

tcOutcome(c, call) ==
    IF call.op = "countTokens"
    THEN UniversalTokenCounter_countTokens(c, call.text, call.model)
    ELSE UniversalTokenCounter_analyzeText(c, call.text, call.model)

tcReturned(c, call, outcome) ==
    [c EXCEPT !.pending = @ \ {call},
              !.last = call,
              !.outcome = outcome,
              !.returned = IF call.op = "countTokens" /\ <<call.text, call.model>> = c.subject
                           THEN Append(@, outcome) ELSE @]

\* a suspended call goes on to its return or throw
tcResume(call) ==
    /\ call \in tc.pending
    /\ initialized(tc.stage)
    /\ tc' = tcReturned(tc, call, tcOutcome(tc, call))
    /\ UNCHANGED ChunkerVars

TcInit ==
    /\ jobs = EmptyBag
    /\ callsLeft = 0
    /\ processingQueue = <<>>
    /\ ev = NoEvent
    /\ busySeen = FALSE
    /\ faultsLeft = 0
    /\ sigBuf = <<>> /\ sigMime = TXT /\ sigOut = "none"
    /\ ck = CkIdle /\ sn = SnIdle /\ extractionCache = <<>> /\ LaterIdle
    /\ tc \in {TcConstructed(failed, subject) :
                  failed \in SUBSET {"gpt-4o"}, subject \in TcTexts \X TcModels}

TcCallAny == \E call \in TcCalls(tc.subject) : tcCall(call)
TcResumeAny == \E call \in tc.pending : tcResume(call)

NextCount == initializeDatabase \/ initializePricing \/ updatePricing \/ TcCallAny \/ TcResumeAny

SpecCount == TcInit /\ [][NextCount]_vars

(***************************************************************************)
(* SecureFileProcessor.sanitizeContent, and the scans of the text before   *)
(* and after it.                                                           *)
(*                                                                         *)
(* A text is a sequence of tokens, each a fixed string that the regular    *)
(* expressions of the code take or leave whole; every way the patterns can *)
(* occur in a text made of these tokens is a run of whole tokens:          *)
(*   <script   >   </script>   java   vb   script:   on   k   ' '   =      *)
(*   \x00 (a control character)   k*10000 (ten thousand letters k)         *)
(* and the markers that sanitizeContent writes.  The letters of java, vb,  *)
(* on, k and k*10000 are the word characters (\w) of the model, ' ' is the *)
(* white space (\s).                                                       *)
(***************************************************************************)
MaxTextLen == 3    \* tokens of a text, a leading k*10000 not counted

Pad == "k*10000"
Ctl == "\\x00"

tokenLength ==
    ("<script" :> 7) @@ (">" :> 1) @@ ("</script>" :> 9) @@ ("java" :> 4) @@ ("vb" :> 2)
 @@ ("script:" :> 7) @@ ("on" :> 2) @@ ("k" :> 1) @@ (" " :> 1) @@ ("=" :> 1)
 @@ (Ctl :> 1) @@ (Pad :> 10000)
 @@ ("[SCRIPT_REMOVED]" :> 16) @@ ("[JAVASCRIPT_REMOVED]" :> 20)
 @@ ("[VBSCRIPT_REMOVED]" :> 18) @@ ("[EVENT_HANDLER_REMOVED]" :> 23)

WordTokens == {"java", "vb", "on", "k", Pad}

\* the least index from which the tokens of the text are all outside S
\* (Len(text) + 1 if the text is empty or its first token is outside S)
RECURSIVE runEnd(_, _, _)
runEnd(text, from, S) ==
    IF from > Len(text) \/ text[from] \notin S THEN from ELSE runEnd(text, from + 1, S)

\* the index of the token that ends the match of the pattern at the head of
\* the text, 0 if the pattern does not match there
scriptElement(text) ==      \* /<script[\s\S]*?<\/script>/
    IF text[1] = "<script" /\ \E j \in 2..Len(text) : text[j] = "</script>"
    THEN CHOOSE j \in 2..Len(text) :
             text[j] = "</script>" /\ \A i \in 2..(j - 1) : text[i] # "</script>"
    ELSE 0
javascriptUri(text) ==      \* /javascript:/
    IF Len(text) >= 2 /\ text[1] = "java" /\ text[2] = "script:" THEN 2 ELSE 0
vbscriptUri(text) ==        \* /vbscript:/
    IF Len(text) >= 2 /\ text[1] = "vb" /\ text[2] = "script:" THEN 2 ELSE 0
eventHandler(text) ==       \* /on\w+\s*=/
    LET words == runEnd(text, 2, WordTokens)
        spaces == runEnd(text, words, {" "})
    IN IF text[1] = "on" /\ words > 2 /\ spaces <= Len(text) /\ text[spaces] = "="
       THEN spaces ELSE 0
scriptTag(text) ==          \* /<script[^>]*>/
    LET close == runEnd(text, 2, DOMAIN tokenLength \ {">", "</script>"})
    IN IF text[1] = "<script" /\ close <= Len(text) THEN close ELSE 0
scriptOpen(text) ==         \* /<script/
    IF text[1] = "<script" THEN 1 ELSE 0

RECURSIVE replace(_, _, _)
\* text.replace(/pattern/gi, marker)
replace(text, pattern(_), marker) ==
    IF text = <<>> THEN <<>>
    ELSE IF pattern(text) > 0
    THEN <<marker>> \o replace(SubSeq(text, pattern(text) + 1, Len(text)), pattern, marker)
    ELSE <<text[1]>> \o replace(Tail(text), pattern, marker)

\* text.trim()
trim(text) ==
    LET inside == {i \in 1..Len(text) : text[i] # " "}
    IN IF inside = {} THEN <<>>
       ELSE SubSeq(text, CHOOSE i \in inside : \A j \in inside : i <= j,
                         CHOOSE i \in inside : \A j \in inside : i >= j)

sanitizeContent(content) ==
    trim(SelectSeq(replace(replace(replace(replace(content,
                                                   scriptElement, "[SCRIPT_REMOVED]"),
                                           javascriptUri, "[JAVASCRIPT_REMOVED]"),
                                   vbscriptUri, "[VBSCRIPT_REMOVED]"),
                           eventHandler, "[EVENT_HANDLER_REMOVED]"),
                   LAMBDA t : t # Ctl))

RECURSIVE textLength(_)
textLength(text) == IF text = <<>> THEN 0 ELSE tokenLength[text[1]] + textLength(Tail(text))

\* the offsets of the last characters of the matches of a pattern in a text
matchEnds(text, pattern(_)) ==
    {textLength(SubSeq(text, 1, i - 1 + pattern(SubSeq(text, i, Len(text))))) - 1 :
        i \in {i \in 1..Len(text) : pattern(SubSeq(text, i, Len(text))) > 0}}

\* the offset of the last character of the match that ends first, -1 if
\* there is none
firstMatchEnd(ends) == IF ends = {} THEN -1 ELSE CHOOSE e \in ends : \A f \in ends : e <= f

\* validateExtractedContent for a text within MAX_TEXT_LENGTH: "ok", or the
\* message of the Error it throws
validateExtractedText(text) ==
    IF text = <<>> THEN "No text content extracted"
    ELSE IF matchEnds(text, scriptOpen) \cup matchEnds(text, javascriptUri)
              \cup matchEnds(text, vbscriptUri) # {}
    THEN "Extracted content contains potentially harmful patterns"
    ELSE "ok"

\* the suspiciousAt of a content: where the first match of one of the
\* suspiciousPatterns of validateInput ends
suspiciousAt(content) ==
    firstMatchEnd(matchEnds(content, scriptTag) \cup matchEnds(content, javascriptUri)
                  \cup matchEnds(content, vbscriptUri) \cup matchEnds(content, eventHandler))

\* validateInput of chunkDocument(sanitizedContent, maxTokensPerChunk, model)
\* with a valid maxTokens and model: "ok", or the message of the Error
validateSanitized(content) ==
    IF content = <<>> THEN "Content must be a non-empty string"
    ELSE IF hasHarmfulPattern(suspiciousAt(content))
    THEN "Content contains potentially harmful patterns"
    ELSE "ok"

SnTokens == DOMAIN tokenLength \ {Pad, "[SCRIPT_REMOVED]", "[JAVASCRIPT_REMOVED]",
                                  "[VBSCRIPT_REMOVED]", "[EVENT_HANDLER_REMOVED]"}

SnTexts ==
    LET short == UNION {[1..n -> SnTokens] : n \in 0..MaxTextLen}
    IN short \cup {<<Pad>> \o text : text \in short}

\* extractedContent.text as extractContent has it in hand
SnExtracted(text) == [pc |-> "extracted", text |-> text, out |-> <<>>, error |-> "none"]

SanitizerVars ==
    <<jobs, callsLeft, processingQueue, ev, busySeen, faultsLeft, sigBuf, sigMime, sigOut,
      ck, tc, extractionCache, LaterVars>>

\* extractContent: validateExtractedContent, and the test of processFile
\* for a text that is empty or white space
validateExtracted ==
    /\ sn.pc = "extracted"
    /\ sn' = IF validateExtractedText(sn.text) # "ok"
             THEN [sn EXCEPT !.pc = "failed", !.error = validateExtractedText(sn.text)]
             ELSE IF trim(sn.text) = <<>>
             THEN [sn EXCEPT !.pc = "failed", !.error = "No extractable content found in file"]
             ELSE [sn EXCEPT !.pc = "validated"]
    /\ UNCHANGED SanitizerVars

\* processFile: const sanitizedContent = this.sanitizeContent(extractedContent.text)
sanitize ==
    /\ sn.pc = "validated"
    /\ sn' = [sn EXCEPT !.pc = "sanitized", !.out = sanitizeContent(sn.text)]
    /\ UNCHANGED SanitizerVars

\* chunkDocument(sanitizedContent, ...) up to the end of validateInput
scanSanitized ==
    /\ sn.pc = "sanitized"
    /\ sn' = IF validateSanitized(sn.out) # "ok"
             THEN [sn EXCEPT !.pc = "rejected", !.error = validateSanitized(sn.out)]
             ELSE [sn EXCEPT !.pc = "chunking"]
    /\ UNCHANGED SanitizerVars

SnInit ==
    /\ jobs = EmptyBag
    /\ callsLeft = 0
    /\ processingQueue = <<>>
    /\ ev = NoEvent
    /\ busySeen = FALSE
    /\ faultsLeft = 0
    /\ sigBuf = <<>> /\ sigMime = TXT /\ sigOut = "none"
    /\ ck = CkIdle /\ tc = TcIdle /\ extractionCache = <<>> /\ LaterIdle
    /\ sn \in {SnExtracted(text) : text \in SnTexts}

NextSan == validateExtracted \/ sanitize \/ scanSanitized

SpecSan == SnInit /\ [][NextSan]_vars

(***************************************************************************)
(* FileExtractor.extractionCache and cacheResult.                          *)
(*                                                                         *)
(* A Map keeps its keys in the order of their insertion; set() on a key    *)
(* that is present replaces the value in place.  An entry is its key and   *)
(* the number of the insertion that put the key there (1 for the first     *)
(* key inserted into the cache); results and timestamps are left out.      *)
(* extractContent never gets as far as cacheResult (see cacheKeyInScope),  *)
(* so here cacheResult is called as a method in its own right.             *)
(***************************************************************************)
cacheMaxSize == 100
MaxInserts == 104    \* insertions into the cache in one behaviour

CacheEntry(key, inserted) == [key |-> key, inserted |-> inserted]

cacheHas(cache, key) == \E i \in 1..Len(cache) : cache[i].key = key

\* this.extractionCache.set(key, ...)
cacheSet(cache, key) ==
    IF cacheHas(cache, key) THEN cache
    ELSE Append(cache, CacheEntry(key, IF cache = <<>> THEN 1 ELSE cache[Len(cache)].inserted + 1))

\* a cacheResult that never evicts
cacheResultUnbounded(cache, key) == cacheSet(cache, key)

\* cacheResult(key, result): the cache after it
cacheResult(cache, key) ==
    cacheSet(IF Len(cache) >= cacheMaxSize THEN Tail(cache) ELSE cache, key)

\* a key that the cache has never held
freshKey(cache) ==
    IF cache = <<>> THEN 1
    ELSE 1 + CHOOSE k \in {cache[i].key : i \in 1..Len(cache)} :
                 \A i \in 1..Len(cache) : cache[i].key <= k

\* the keys cacheResult is called with: a new one, and those of the first,
\* the middle and the last entry
CacheKeys(cache) ==
    {freshKey(cache)}
    \cup {cache[i].key : i \in {i \in 1..Len(cache) : i \in {1, (Len(cache) + 1) \div 2, Len(cache)}}}

CacheVars ==
    <<jobs, callsLeft, processingQueue, ev, busySeen, faultsLeft, sigBuf, sigMime, sigOut,
      ck, tc, sn, LaterVars>>

storeResult(key) ==
    /\ IF extractionCache = <<>> THEN TRUE
       ELSE extractionCache[Len(extractionCache)].inserted < MaxInserts
    /\ extractionCache' = cacheResult(extractionCache, key)
    /\ UNCHANGED CacheVars

CacheInit ==
    /\ jobs = EmptyBag
    /\ callsLeft = 0
    /\ processingQueue = <<>>
    /\ ev = NoEvent
    /\ busySeen = FALSE
    /\ faultsLeft = 0
    /\ sigBuf = <<>> /\ sigMime = TXT /\ sigOut = "none"
    /\ ck = CkIdle /\ tc = TcIdle /\ sn = SnIdle
    /\ extractionCache = <<>> /\ LaterIdle

NextCache == \E key \in CacheKeys(extractionCache) : storeResult(key)

SpecCache == CacheInit /\ [][NextCache]_vars

(***************************************************************************)
(* Claims about the coordinator and the validation.                        *)
(***************************************************************************)

\* C1: every chunk of the list that chunkDocument returns has a tokenCount
\* of at most 1.1 x maxTokens
C1_TokenCountWithinBuffer ==
    ck.pc = "returned" =>
        \A k \in 1..Len(ck.result) :
            /\ ck.result[k].tokenCount # NaN
            /\ 10 * ck.result[k].tokenCount <= 11 * ck.input.maxTokens

RECURSIVE C2_Own(_, _, _)
\* the texts of the chunks lo..hi in order, without the pieces copied as overlap
C2_Own(chunks, lo, hi) ==
    IF lo > hi THEN <<>>
    ELSE IF lo = hi THEN SelectSeq(chunks[lo].text, LAMBDA p : ~p.ov)
    ELSE LET mid == (lo + hi) \div 2
         IN C2_Own(chunks, lo, mid) \o C2_Own(chunks, mid + 1, hi)

RECURSIVE C2_Input(_, _, _)
\* the sentences of the paragraphs lo..hi of the input, in order
C2_Input(content, lo, hi) ==
    IF lo > hi THEN <<>>
    ELSE IF lo = hi THEN [k \in 1..Len(content[lo]) |-> <<content[lo][k].para, content[lo][k].sent>>]
    ELSE LET mid == (lo + hi) \div 2
         IN C2_Input(content, lo, mid) \o C2_Input(content, mid + 1, hi)

\* q goes on in its sentence where p stopped, at most a space between them
C2_Continues(p, q) ==
    /\ p.para = q.para /\ p.sent = q.sent
    /\ q.lo = p.hi \/ (q.lo = p.hi + 1 /\ IsSpace(p.kind, p.hi))

C2_Tiles(own) ==
    \A k \in 1..Len(own) :
        /\ own[k].lo = 0 \/ (k > 1 /\ C2_Continues(own[k - 1], own[k]))
        /\ own[k].hi = SentenceKinds[own[k].kind].len
              \/ (k < Len(own) /\ C2_Continues(own[k], own[k + 1]))

C2_Started(own) ==
    LET starts == SelectSeq(own, LAMBDA p : p.lo = 0)
    IN [k \in 1..Len(starts) |-> <<starts[k].para, starts[k].sent>>]

\* C2: the texts of the returned chunks, in index order and without the
\* overlap copied at chunk boundaries, are the input: every sentence of it
\* once, in order, and every character of each sentence
C2_ChunksReproduceInput ==
    ck.pc = "returned" =>
        /\ C2_Tiles(C2_Own(ck.result, 1, Len(ck.result)))
        /\ C2_Started(C2_Own(ck.result, 1, Len(ck.result)))
              = C2_Input(ck.input.content, 1, Len(ck.input.content))

\* C3: the calls that were admitted and have neither returned nor thrown
\* never number more than MAX_CONCURRENT_PROCESSING
C3_InFlightBounded == inFlight <= MAX_CONCURRENT_PROCESSING

\* C4: a call that passes validation while 10 jobs are active is rejected
\* with the busy error, leaving activeProcessing, the temp directory and the
\* queue as they were; whenever fewer than 10 are active (so after a job
\* completed, failed or timed out) such a call is admitted
C4_BusyThenAdmitted ==
    [][ (callsLeft' < callsLeft /\ ev'.valid) =>
          IF activeProcessingSize >= MAX_CONCURRENT_PROCESSING
          THEN /\ ev'.kind = "busy"
               /\ jobs' = jobs
               /\ processingQueue' = <<>>
          ELSE /\ ev'.kind = "admitted"
               /\ activeProcessingSize' = activeProcessingSize + 1
               /\ tempFiles' = tempFiles ]_vars

C4_Witness == busySeen /\ ev.kind = "admitted" /\ activeProcessingSize = MAX_CONCURRENT_PROCESSING

\* C5: a call whose input validateFileSecurely rejects fails at once: no job
\* is registered, no temp file is written and no extraction is started
C5_RejectedBeforeExtraction ==
    [][ (callsLeft' < callsLeft /\ ~ev'.valid) =>
          /\ ev'.kind = "invalid"
          /\ jobs' = jobs ]_vars

C5_Witness == ev.kind = "invalid" /\ ~ev.valid /\ jobs # EmptyBag

\* C6: for PDF, DOCX, XLSX and PPTX every buffer whose leading 4 bytes are
\* not the type's magic number (shorter buffers included) is rejected by the
\* signature check, and only text/plain passes without a matching signature
C6_Magic == IF sigMime = PDF THEN <<37, 80, 68, 70>> ELSE <<80, 75, 3, 4>>
C6_Leading4 == SubSeq(sigBuf, 1, IF Len(sigBuf) < 4 THEN Len(sigBuf) ELSE 4)
C6_SignatureMismatchRejected ==
    sigOut # "none" =>
        /\ (sigMime \in {PDF, DOCX, XLSX, PPTX} /\ C6_Leading4 # C6_Magic)
              => sigOut = "signatureMismatch"
        /\ sigOut = "ok" => (sigMime = TXT \/ C6_Leading4 = C6_Magic)

C6_Witness == sigOut = "signatureMismatch" /\ sigMime = PDF /\ sigBuf = <<80, 75, 3, 4>>

\* C7: a call whose extraction resolved with clean, non-empty text returns a
\* result
C7_GoodExtractionReturns ==
    (ev.kind \in {"returned", "failed", "timeout"} /\ ev.good) => ev.kind = "returned"

\* C8: once the deadline timer of a job has fired the job is over and its
\* temp file is gone: no call is in flight without its entry
C8_DeadlineEndsJob ==
    \A j \in BagToSet(jobs) : j.pc \in {"write", "extract"} => j.registered

\* C9: a call that has returned or thrown has no entry in activeProcessing,
\* and in the end no entry and no temp file is left
C9_EventuallyCleaned ==
    /\ [](\A j \in BagToSet(jobs) : j.pc = "done" => ~j.registered)
    /\ <>[](activeProcessingSize = 0 /\ tempFiles = 0)

C9_Witness ==
    /\ ev.kind = "timeout"
    /\ \E j \in BagToSet(jobs) : j.pc = "done" /\ j.tempFile /\ ~j.registered

\* C10: chunkDocument returns at most 100 chunks for every content it
\* accepts; when the loop stops at the chunk limit the call still returns,
\* with chunks it had built, and only a rejected input makes it throw
C10_AtMostHundredChunks ==
    /\ ck.pc = "returned" => Len(ck.result) <= 100
    /\ ck.pc = "threw" => validateInput(ck.input) # "ok" /\ ck.chunks = <<>>
    /\ (ck.pc \in {"final", "returned"} /\ ck.warned # "none") => ck.chunks # <<>>
    /\ (ck.pc = "returned" /\ ck.chunks # <<>>) =>
          /\ ck.result # <<>>
          /\ \A k \in 1..Len(ck.result) : \E n \in 1..Len(ck.chunks) : ck.result[k] = ck.chunks[n]

C10_Witness ==
    /\ ck.pc = "returned"
    /\ ck.warned = "maximum"
    /\ Len(ck.chunks) > 100
    /\ Len(ck.result) = 100


(***************************************************************************)
(* Claims about chunkDocument, the token counter, the sanitizer and the    *)
(* extraction cache.                                                       *)
(***************************************************************************)
C11_BadLimit ==
    ~ck.input.isInteger \/ ck.input.maxTokens < 100 \/ ck.input.maxTokens > 32000

\* C11: a call of chunkDocument whose maxTokens is not an integer in
\* [100, 32000] throws, and it does so with no section split, no chunk
\* made, nothing returned and chunkingStats as the constructor left them
C11_BadLimitFailsFirst ==
    C11_BadLimit =>
        /\ ck.pc \in {"called", "threw"}
        /\ ck.pc = "threw" => ck.error # "none"
        /\ ck.sections = <<>> /\ ck.chunks = <<>> /\ ck.currentChunk = <<>>
        /\ ck.result = <<>>
        /\ ck.chunkingStats = NoStats

C11_Witness ==
    /\ ck.pc = "threw"
    /\ ck.input.maxTokens = 50 /\ ck.input.isInteger
    /\ ck.error = "maxTokens must be an integer between 100 and 32000"


\* the model names that normalize to no key of the model database
C12_Unknown(model) == normalizeModelName(model) \notin loadModelDatabase

\* C12 as stated: for a model that is neither registered nor an alias
\* countTokens and analyzeText do not throw, countTokens returns the count of
\* the default (gpt-4) encoder, and analyzeText a fallback analysis with
\* provider 'unknown' and context window 8192
C12_UnknownModelDefaultCount ==
    (tc.stage # "idle" /\ tc.last.op # "none" /\ C12_Unknown(tc.last.model)) =>
        /\ ~tc.outcome.threw
        /\ Counted(tc.outcome.tokenCount) = encodedLength(fallbackEncoder, tc.last.text)
        /\ tc.last.op = "analyzeText" =>
              tc.outcome.provider = "unknown" /\ tc.outcome.contextWindow = 8192

\* C12, amended: for a model that is neither registered nor an alias
\* countTokens and analyzeText do not throw; the count is that of the
\* default (gpt-4) encoder, or Math.ceil(text.length / 4) for a text on
\* which that encoder throws; analyzeText returns a fallback analysis with
\* provider 'unknown' and context window 8192
C12_UnknownModelNeverThrows ==
    (tc.stage # "idle" /\ tc.last.op # "none" /\ C12_Unknown(tc.last.model)) =>
        /\ ~tc.outcome.threw
        /\ tc.outcome.tokenCount = IF tc.last.text.special
                                   THEN (tc.last.text.length + 3) \div 4
                                   ELSE tc.last.text.cl100k_base
        /\ tc.last.op = "analyzeText" =>
              tc.outcome.provider = "unknown" /\ tc.outcome.contextWindow = 8192

C12_Witness ==
    /\ tc.stage = "ready"
    /\ tc.last = TcCall("analyzeText", TcText(30, 7, 6, TRUE), "gpt-3.5-turbo-16k")
    /\ tc.outcome = Outcome(FALSE, 8, "unknown", 8192, "approximation")


\* C17: the countTokens calls for one text and model all return the same,
\* whatever other calls ran before them or are in flight; a call returns only
\* once initializationPromise has resolved, and from then on the model
\* database and the encoders stay as they are
C17_CountTokensDeterministic ==
    /\ [](tc.stage # "idle" =>
             \A i, j \in 1..Len(tc.returned) : tc.returned[i] = tc.returned[j])
    /\ [][ /\ (tc'.pending # tc.pending /\ tc'.callsLeft = tc.callsLeft) => tc.stage = "ready"
           /\ tc.stage = "ready"
               => tc'.modelDatabase = tc.modelDatabase /\ tc'.encoders = tc.encoders ]_vars

C17_Witness ==
    /\ Len(tc.returned) = 2
    /\ tc.subject = <<TcText(44, 10, 9, FALSE), "opus">>
    /\ tc.returned[2] = Counted(12)
    /\ tc.last.op = "analyzeText"
    /\ tc.updatesLeft = 0 /\ tc.callsLeft = 0 /\ tc.pending = {}


\* C13: sanitizeContent applied to a text it has sanitized leaves it as it is
C13_SanitizeIdempotent ==
    sn.pc \in {"sanitized", "rejected", "chunking"} => sanitizeContent(sn.out) = sn.out

C20_Entries(cache) == {cache[i] : i \in 1..Len(cache)}

\* the entry whose key was inserted before all the others
C20_Earliest(cache) ==
    CHOOSE e \in C20_Entries(cache) : \A f \in C20_Entries(cache) : e.inserted <= f.inserted

\* C20: extractionCache never holds more than cacheMaxSize (100) entries, and
\* a cacheResult on a full cache removes the entry inserted earliest and no
\* other
C20_CacheBoundedOldestEvicted ==
    /\ [](Len(extractionCache) <= 100)
    /\ [][ Len(extractionCache) >= 100 =>
              C20_Entries(extractionCache) \ C20_Entries(extractionCache')
                  = {C20_Earliest(extractionCache)} ]_vars

C20_Witness ==
    /\ Len(extractionCache) = 100
    /\ extractionCache[1].inserted = 3
    /\ extractionCache[99] = CacheEntry(1, 101)
    /\ extractionCache[100] = CacheEntry(101, 102)


RECURSIVE C15_Tokens(_, _, _)
\* countTokens of the whole content: the paragraphs lo..hi and the blank
\* lines between them
C15_Tokens(content, lo, hi) ==
    IF lo > hi THEN 0
    ELSE IF lo = hi THEN countTokens(content[lo])
    ELSE LET mid == (lo + hi) \div 2
         IN C15_Tokens(content, lo, mid) + 1 + C15_Tokens(content, mid + 1, hi)

\* C15: for a content of at most maxTokens tokens chunkDocument returns one
\* chunk, with index 1
C15_SmallContentOneChunk ==
    (ck.pc = "returned" /\ C15_Tokens(ck.input.content, 1, Len(ck.input.content)) <= ck.input.maxTokens)
        => Len(ck.result) = 1 /\ ck.result[1].index = 1

\* the pieces at the head of a text that were copied as overlap or context
C16_Prefix(text) == SubSeq(text, 1, runEnd([k \in 1..Len(text) |-> text[k].ov], 1, {TRUE}) - 1)

\* the piece is a copy of characters that the text holds
C16_TakenFrom(p, text) ==
    \E k \in 1..Len(text) :
        /\ text[k].para = p.para /\ text[k].sent = p.sent
        /\ text[k].lo <= p.lo /\ p.hi <= text[k].hi

\* C16: when chunkDocument returns more than one chunk, each chunk after the
\* first begins with copied text, and that text is in the chunk before it
C16_LaterChunksBeginWithOverlap ==
    (ck.pc = "returned" /\ Len(ck.result) > 1) =>
        \A k \in 2..Len(ck.result) :
            /\ C16_Prefix(ck.result[k].text) # <<>>
            /\ \A n \in 1..Len(C16_Prefix(ck.result[k].text)) :
                   C16_TakenFrom(C16_Prefix(ck.result[k].text)[n], ck.result[k - 1].text)

\* C18: the tokenCount of every chunk that chunkDocument returns is an
\* integer, and at least 1
C18_TokenCountAtLeastOne ==
    ck.pc = "returned" =>
        \A k \in 1..Len(ck.result) : ck.result[k].tokenCount \in Nat \ {0}

\* C19: the k-th chunk of the list that chunkDocument returns has index k
C19_IndexIsPosition ==
    ck.pc = "returned" => \A k \in 1..Len(ck.result) : ck.result[k].index = k


(***************************************************************************)
(* The name check of validateFileSecurely applied to one file name, with   *)
(* a buffer and a declared type that pass the other checks.                *)
(***************************************************************************)
MaxNameLen == 3    \* longest file name enumerated character by character

EarlierVars ==
    <<jobs, callsLeft, processingQueue, ev, busySeen, faultsLeft, sigBuf, sigMime, sigOut,
      ck, tc, sn, extractionCache>>

EarlierIdle ==
    /\ jobs = EmptyBag
    /\ callsLeft = 0
    /\ processingQueue = <<>>
    /\ ev = NoEvent
    /\ busySeen = FALSE
    /\ faultsLeft = 0
    /\ sigBuf = <<>> /\ sigMime = TXT /\ sigOut = "none"
    /\ ck = CkIdle /\ tc = TcIdle /\ sn = SnIdle /\ extractionCache = <<>>

NameChars == {"a", ".", "/", "\\", "<", ControlChar}

Repeat(c, n) == [i \in 1..n |-> c]

FileNames ==
    UNION {[1..n -> NameChars] : n \in 0..MaxNameLen}
    \cup {<<"C","O","N">>, <<"c","o","n">>, <<"C","o","n",".","a">>, <<"C","O","M","1">>,
          <<"l","p","t","9",".","t","x","t">>, <<"C","O","M","0">>, <<"a",".","C","O","N">>,
          <<"a","*">>, <<"a","?","b">>, <<"a",":","b">>, <<"a","|">>, <<"\"">>, <<">">>,
          Repeat("a", 255), Repeat("a", 256)}

NmGiven(fileName) == [pc |-> "given", fileName |-> fileName]

\* validateFileSecurely for the name
checkName ==
    /\ nm.pc = "given"
    /\ nm' = [pc |-> "checked", fileName |-> nm.fileName,
              verdict |-> validateFileSecurely(Buffer(PdfMagic, 2048, "none", 0), nm.fileName, PDF)]
    /\ UNCHANGED <<EarlierVars, ap, fx, rt, sl>>

NmInit ==
    /\ EarlierIdle
    /\ nm \in {NmGiven(fileName) : fileName \in FileNames}
    /\ ap = ApIdle /\ fx = FxIdle /\ rt = RtIdle /\ sl = SlIdle

NextName == checkName

SpecName == NmInit /\ [][NextName]_vars

(***************************************************************************)
(* processFile calls told apart.  processingId is crypto.randomUUID(), a   *)
(* fresh value for each call, and the temp file's name holds it, so the    *)
(* path of a call's temp file is its processingId here.  activeProcessing  *)
(* is the set of the keys of the Map; the deadline timer of an entry is    *)
(* pending while its id is in timers; files are the paths on disk.  The    *)
(* calls are given valid files.  The auto-delete timer and the sweep act   *)
(* on files older than TEMP_FILE_TTL, six times the longest call, and are  *)
(* left out.                                                               *)
(***************************************************************************)
MaxIds == 3    \* processFile calls in one behaviour of SpecIds

Ids == 1..MaxIds

ApCall(pc, tempFilePath, outcome) == [pc |-> pc, tempFilePath |-> tempFilePath, outcome |-> outcome]

\* a cleanup that empties the map and clears every timer
cleanupProcessingAll(a, processingId, tempFilePath, unlinked) ==
    [a EXCEPT !.timers = {},
              !.activeProcessing = {},
              !.files = IF tempFilePath # 0 /\ unlinked THEN @ \ {tempFilePath} ELSE @]

\* cleanupProcessing(processingId, tempFilePath) on the shared structures;
\* 0 stands for the null path, unlinked tells whether fs.unlink succeeds
cleanupProcessingById(a, processingId, tempFilePath, unlinked) ==
    [a EXCEPT !.timers = IF processingId \in a.activeProcessing THEN @ \ {processingId} ELSE @,
              !.activeProcessing = @ \ {processingId},
              !.files = IF tempFilePath # 0 /\ unlinked THEN @ \ {tempFilePath} ELSE @]

\* timeoutProcessing(processingId)
timeoutProcessingById(a, processingId) == cleanupProcessingById(a, processingId, 0, FALSE)

\* the call ends: catch or return, then finally
apFinally(a, id, outcome, unlinked) ==
    [cleanupProcessingById(a, id, a.calls[id].tempFilePath, unlinked)
        EXCEPT !.calls[id].pc = "done", !.calls[id].outcome = outcome,
               !.actor = id, !.step = "finally"]

\* processFile up to the await of fs.writeFile
apProcessFile ==
    /\ ap.pc = "running" /\ ap.nextId <= MaxIds
    /\ admission("ok", Cardinality(ap.activeProcessing)) = "admitted"
    /\ ap' = [ap EXCEPT !.activeProcessing = @ \cup {ap.nextId},
                        !.timers = @ \cup {ap.nextId},
                        !.calls[ap.nextId].pc = "write",
                        !.nextId = @ + 1,
                        !.actor = ap.nextId, !.step = "start"]
    /\ UNCHANGED <<EarlierVars, nm, fx, rt, sl>>

\* fs.writeFile resolves: the file is on disk and the race starts
apWriteFileDone(id) ==
    /\ ap.pc = "running" /\ ap.calls[id].pc = "write"
    /\ ap' = [ap EXCEPT !.files = @ \cup {id},
                        !.calls[id].pc = "extract", !.calls[id].tempFilePath = id,
                        !.actor = id, !.step = "written"]
    /\ UNCHANGED <<EarlierVars, nm, fx, rt, sl>>

\* fs.writeFile rejects: catch, then finally with tempFilePath still null
apWriteFileFails(id) ==
    /\ ap.pc = "running" /\ ap.calls[id].pc = "write"
    /\ ap' = apFinally(ap, id, "failed", FALSE)
    /\ UNCHANGED <<EarlierVars, nm, fx, rt, sl>>

\* extractContent settles first
apExtractionSettles(id, x, unlinked) ==
    /\ ap.pc = "running" /\ ap.calls[id].pc = "extract"
    /\ ap' = apFinally(ap, id, processExtracted(x), unlinked)
    /\ UNCHANGED <<EarlierVars, nm, fx, rt, sl>>

\* the timeout promise of the race rejects, after the deadline timer
apRaceTimeout(id, unlinked) ==
    /\ ap.pc = "running" /\ ap.calls[id].pc = "extract" /\ id \notin ap.timers
    /\ ap' = apFinally(ap, id, "timeout", unlinked)
    /\ UNCHANGED <<EarlierVars, nm, fx, rt, sl>>

\* the deadline timer of an entry fires
apDeadlineTimer(id) ==
    /\ ap.pc = "running" /\ id \in ap.timers
    /\ ap' = [timeoutProcessingById([ap EXCEPT !.timers = @ \ {id}], id)
                 EXCEPT !.actor = id, !.step = "deadline"]
    /\ UNCHANGED <<EarlierVars, nm, fx, rt, sl>>

ApInit ==
    /\ EarlierIdle
    /\ ap = [pc |-> "running", activeProcessing |-> {}, timers |-> {}, files |-> {},
             calls |-> [id \in Ids |-> ApCall("idle", 0, "none")],
             nextId |-> 1, actor |-> 0, step |-> "none"]
    /\ nm = NmIdle /\ fx = FxIdle /\ rt = RtIdle /\ sl = SlIdle

ApWriteDone == \E id \in Ids : apWriteFileDone(id)
ApWriteFails == \E id \in Ids : apWriteFileFails(id)
ApSettle == \E id \in Ids, x \in Extractions, unlinked \in BOOLEAN : apExtractionSettles(id, x, unlinked)
ApRaceTimeout == \E id \in Ids, unlinked \in BOOLEAN : apRaceTimeout(id, unlinked)
ApDeadline == \E id \in Ids : apDeadlineTimer(id)

NextIds ==
    \/ apProcessFile
    \/ ApWriteDone
    \/ ApWriteFails
    \/ ApSettle
    \/ ApRaceTimeout
    \/ ApDeadline

SpecIds == ApInit /\ [][NextIds]_vars

(***************************************************************************)
(* FileExtractor.extractContent over time.  processFile is its only        *)
(* caller, and gives it the temp file it has just written, whose path      *)
(* holds the fresh processingId.  The clock counts minutes.                *)
(***************************************************************************)
cacheExpiry == 30
TickMinutes == 10      \* what the clock advances in one step
MaxNow == 30           \* the clock stops here
MaxExtractions == 3    \* extractContent calls in one behaviour

Contents == {"report", "slides"}

\* md5(filePath + fileStats.size + fileStats.mtime.getTime())
cacheKeyOf(filePath, content, mtime) == <<filePath, content, mtime>>

\* cached && Date.now() - cached.timestamp < this.cacheExpiry
cacheFresh(cache, key, now) ==
    \E i \in 1..Len(cache) : cache[i].key = key /\ now - cache[i].timestamp < cacheExpiry

\* a call that has ended: the content of its file, when it was made,
\* whether performExtraction ran, whether it resolved with content that
\* passed validateExtractedContent, when the call ended and how
FxEnded(content, at, ran, extracted, endedAt, outcome) ==
    [content |-> content, at |-> at, ran |-> ran, extracted |-> extracted,
     endedAt |-> endedAt, outcome |-> outcome]

\* extractContent up to the await of the race: the cache check
fxExtractContent(content) ==
    /\ fx.pc = "running" /\ fx.callsLeft > 0
    /\ fx' = IF cacheFresh(extractionCache, cacheKeyOf(fx.nextPath, content, fx.now), fx.now)
             THEN [fx EXCEPT !.callsLeft = @ - 1, !.nextPath = @ + 1,
                             !.ended = Append(@, FxEnded(content, fx.now, FALSE, FALSE, fx.now, "returned"))]
             ELSE [fx EXCEPT !.callsLeft = @ - 1, !.nextPath = @ + 1,
                             !.pending = @ \cup {[content |-> content, at |-> fx.now]}]
    /\ UNCHANGED <<EarlierVars, ap, nm, rt, sl>>

\* performExtraction settles: validation, the cacheResult statement, and
\* the return or the rethrow
fxExtractionSettles(call, x) ==
    /\ fx.pc = "running" /\ call \in fx.pending
    /\ fx' = [fx EXCEPT !.pending = @ \ {call},
                        !.ended = Append(@, FxEnded(call.content, call.at, TRUE,
                                                    x.status = "resolved" /\ validateExtractedContent(x),
                                                    fx.now, extractContent(x)))]
    /\ UNCHANGED <<EarlierVars, ap, nm, rt, sl>>

\* time passes
fxTick ==
    /\ fx.pc = "running" /\ fx.now + TickMinutes <= MaxNow
    /\ fx' = [fx EXCEPT !.now = @ + TickMinutes]
    /\ UNCHANGED <<EarlierVars, ap, nm, rt, sl>>

FxInit ==
    /\ EarlierIdle
    /\ fx = [pc |-> "running", now |-> 0, nextPath |-> 1, callsLeft |-> MaxExtractions,
             pending |-> {}, ended |-> <<>>]
    /\ ap = ApIdle /\ nm = NmIdle /\ rt = RtIdle /\ sl = SlIdle

FxCall == \E content \in Contents : fxExtractContent(content)
FxSettle == \E call \in fx.pending, x \in Extractions : fxExtractionSettles(call, x)

NextExtract == FxCall \/ FxSettle \/ fxTick

SpecExtract == FxInit /\ [][NextExtract]_vars

(***************************************************************************)
(* FileExtractor.extractTextFromSlideXMLSafe on one parsed slide.  A node  *)
(* of the parsed tree is a string (its length, and an id that tells the    *)
(* strings of a slide apart), an array (vals: its items) or an object      *)
(* (keys and vals: its properties in order).  The text is kept as the      *)
(* list of what was appended to it: of which string, how many characters,  *)
(* and how many objects lie between that string and the root.              *)
(***************************************************************************)
MaxSlideDepth == 12    \* deepest nesting of the slides enumerated
MaxItems == 21         \* longest array of the slides enumerated

Str(id, len) == [type |-> "string", id |-> id, len |-> len, keys |-> <<>>, vals |-> <<>>]
Arr(items) == [type |-> "array", id |-> 0, len |-> 0, keys |-> <<>>, vals |-> items]
Obj(keys, vals) == [type |-> "object", id |-> 0, len |-> 0, keys |-> keys, vals |-> vals]

\* text += s.substring(0, 1000) + ' '
Take(s, level) == [id |-> s.id, taken |-> Min(s.len, 1000), level |-> level]

\* the `if (obj['a:t'])` statement
takeTextElement(obj, currentDepth) ==
    LET at == {k \in 1..Len(obj.keys) : obj.keys[k] = "a:t"}
        value == obj.vals[CHOOSE k \in at : TRUE]
    IN IF at = {} THEN <<>>
       ELSE IF value.type = "string"
       THEN IF value.len > 0 THEN <<Take(value, currentDepth + 1)>> ELSE <<>>
       ELSE IF value.type = "array" /\ value.vals # <<>> /\ value.vals[1].type = "string"
       THEN <<Take(value.vals[1], currentDepth + 1)>>
       ELSE <<>>

RECURSIVE extractTextRecursive(_, _)
RECURSIVE walkItems(_, _, _)
RECURSIVE walkValues(_, _, _)

\* value.slice(0, 20).forEach(item => extractTextRecursive(item, currentDepth + 1))
walkItems(items, k, depth) ==
    IF k > Len(items) \/ k > 20 THEN <<>>
    ELSE extractTextRecursive(items[k], depth) \o walkItems(items, k + 1, depth)

\* the loop over Object.values(obj), which breaks at the 52nd value
walkValues(values, k, currentDepth) ==
    IF k > Len(values) \/ k > 51 THEN <<>>
    ELSE (IF values[k].type = "array" THEN walkItems(values[k].vals, 1, currentDepth + 1)
          ELSE IF values[k].type = "object" THEN extractTextRecursive(values[k], currentDepth + 1)
          ELSE <<>>)
         \o walkValues(values, k + 1, currentDepth)

extractTextRecursive(obj, currentDepth) ==
    IF currentDepth > 10 THEN <<>>
    ELSE IF obj.type = "string" THEN <<Take(obj, currentDepth)>>
    ELSE takeTextElement(obj, currentDepth) \o walkValues(obj.vals, 1, currentDepth)

RECURSIVE appended(_, _)
\* text.length before the trim
appended(takes, k) == IF k = 0 THEN 0 ELSE appended(takes, k - 1) + takes[k].taken + 1

\* text.trim().substring(0, 5000).length, for strings without white space
\* at their ends
trimmedLength(takes) ==
    IF \A k \in 1..Len(takes) : takes[k].taken = 0 THEN 0
    ELSE Min(appended(takes, Len(takes)) - 1, 5000)

RECURSIVE Chain(_, _)
\* a shape with d objects (each the only item of an array property) around it
Chain(d, inner) == IF d = 0 THEN inner ELSE Obj(<<"p:sp">>, <<Arr(<<Chain(d - 1, inner)>>)>>)

SlideLengths == {0, 5, 600, 1500}

\* the innermost objects: a text element as xml2js parses it, a text
\* element that is a plain string, strings in another array, a string
\* that is another property
Shapes2(len) ==
    {Obj(<<"a:t">>, <<Arr(<<Str(1, len)>>)>>),
     Obj(<<"a:t">>, <<Str(1, len)>>),
     Obj(<<"a:r">>, <<Arr(<<Str(1, len), Str(2, 5)>>)>>),
     Obj(<<"lang">>, <<Str(1, len)>>),
     Obj(<<"a:r">>, <<Arr([k \in 1..MaxItems |-> Str(k, len)])>>)}

Slides ==
    {Chain(d, inner) : d \in 0..MaxSlideDepth,
                       inner \in UNION {Shapes2(len) : len \in SlideLengths}}

\* extractTextFromSlideXMLSafe(slideData)
extractTextFromSlideXMLSafe ==
    /\ sl.pc = "parsed"
    /\ sl' = [pc |-> "returned", slideData |-> sl.slideData,
              takes |-> extractTextRecursive(sl.slideData, 0),
              length |-> trimmedLength(extractTextRecursive(sl.slideData, 0))]
    /\ UNCHANGED <<EarlierVars, ap, nm, fx, rt>>

SlInit ==
    /\ EarlierIdle
    /\ sl \in {[pc |-> "parsed", slideData |-> slideData] : slideData \in Slides}
    /\ ap = ApIdle /\ nm = NmIdle /\ fx = FxIdle /\ rt = RtIdle

NextSlide == extractTextFromSlideXMLSafe

SpecSlide == SlInit /\ [][NextSlide]_vars

(***************************************************************************)
(* The handler of POST /process, for one request that carries a file.      *)
(*                                                                         *)
(* Redis is outside the process and outlives it: req.redis is absent, not  *)
(* ready, ready with a get and a setex that throw, or ready with some      *)
(* entries.  An entry is what the handler stores under the key after a     *)
(* processFile that returned.  The handler suspends on redis.get and on    *)
(* processFile; what follows processFile runs to the response.             *)
(* processingId and the timings of a response are left out.                *)
(***************************************************************************)
RtModels == {"gpt-4", "gpt-4o"}
RtLimits == {100, 6000}

Request(file, model, maxTokensPerChunk) ==
    [file |-> file, model |-> model, maxTokensPerChunk |-> maxTokensPerChunk]

Requests ==
    {Request(file, model, maxTokensPerChunk) :
        file \in CallInputs, model \in RtModels, maxTokensPerChunk \in RtLimits}

\* `secure_file:${fileHash}:${model}:${maxTokensPerChunk}`, fileHash the
\* SHA-256 of file.buffer
routeCacheKey(req) == <<req.file[1], req.model, req.maxTokensPerChunk>>

Redis(state, entries) == [state |-> state, entries |-> entries]

Redises ==
    {Redis(state, {}) : state \in {"absent", "notReady", "failing"}}
    \cup {Redis("ready", {})}
    \cup {Redis("ready", {routeCacheKey(req)}) : req \in Requests}

\* req.redis && req.redis.isReady
redisReady(redis) == redis.state \in {"failing", "ready"}

NoValue == [kind |-> "undefined", key |-> <<>>]
ExtractedText(key) == [kind |-> "text", key |-> <<key[1]>>]
CachedText == [kind |-> "[CACHED - REQUEST PROCESSING FOR FULL CONTENT]", key |-> <<>>]
TokenAnalysis(key) == [kind |-> "tokenAnalysis", key |-> <<key[1], key[2]>>]
Chunks(key) == [kind |-> "chunks", key |-> key]

Response(status, success, cached, text, tokenAnalysis, chunks) ==
    [status |-> status, success |-> success, cached |-> cached,
     text |-> text, tokenAnalysis |-> tokenAnalysis, chunks |-> chunks]

\* `result`, built from what processFile returned
routeResult(key) ==
    Response(200, TRUE, FALSE, ExtractedText(key), TokenAnalysis(key), Chunks(key))

\* cacheableResult, the value of setex
cacheableResult(key) == [routeResult(key) EXCEPT !.text = CachedText]

\* res.json({...cachedResult, processingId, cached: true, ...})
cachedResponse(key) == [cacheableResult(key) EXCEPT !.cached = TRUE]

\* the status of the catch block, from error.message
errorStatus(reason) ==
    IF reason = "tooLarge" THEN 413
    ELSE IF reason = "unsupportedType" THEN 415
    ELSE IF reason = "maliciousContent" THEN 400
    ELSE 500

errorResponse(reason) ==
    Response(errorStatus(reason), FALSE, FALSE, NoValue, NoValue, NoValue)

\* fileProcessor.processFile(file.buffer, file.originalname, file.mimetype,
\* ...) for a request that is alone in the process: "returned", or the
\* reason of the throw
routeProcessFile(file, x) ==
    IF validateFileSecurely(file[1], file[2], file[3]) # "ok"
    THEN validateFileSecurely(file[1], file[2], file[3])
    ELSE processExtracted(x)

\* the handler from processFile's settling to the response
respond(req, x) ==
    IF routeProcessFile(req.file, x) = "returned"
    THEN routeResult(routeCacheKey(req))
    ELSE errorResponse(routeProcessFile(req.file, x))

\* the cache lookup: from the test of req.redis to the response of a hit
\* or to the call of processFile
rtCacheLookup ==
    /\ rt.pc = "received"
    /\ rt' = IF redisReady(rt.redis) /\ rt.redis.state = "ready"
                 /\ routeCacheKey(rt.req) \in rt.redis.entries
              THEN [rt EXCEPT !.pc = "responded",
                              !.response = cachedResponse(routeCacheKey(rt.req))]
              ELSE [rt EXCEPT !.pc = "processing"]
    /\ UNCHANGED <<EarlierVars, ap, nm, fx, sl>>

\* processFile settles: the result is built, stored in the cache and sent,
\* or the catch block answers
rtProcessFile ==
    /\ rt.pc = "processing"
    /\ rt' = [rt EXCEPT
                 !.pc = "responded",
                 !.response = respond(rt.req, rt.x),
                 !.redis = IF routeProcessFile(rt.req.file, rt.x) = "returned"
                              /\ rt.redis.state = "ready"
                           THEN Redis("ready", rt.redis.entries \cup {routeCacheKey(rt.req)})
                           ELSE rt.redis]
    /\ UNCHANGED <<EarlierVars, ap, nm, fx, sl>>

RtInit ==
    /\ EarlierIdle
    /\ rt \in {[pc |-> "received", req |-> req, x |-> x, redis |-> redis, response |-> NoValue] :
                  req \in Requests, x \in Extractions, redis \in Redises}
    /\ ap = ApIdle /\ nm = NmIdle /\ fx = FxIdle /\ sl = SlIdle

NextRoute == rtCacheLookup \/ rtProcessFile

SpecRoute == RtInit /\ [][NextRoute]_vars

(***************************************************************************)
(* Claims about the loop of performChunking, the character slicing, the    *)
(* extraction cache, the jobs in flight, the file names, the slide text,   *)
(* the model aliases and the /process route                                *)
(***************************************************************************)

\* C25: in every state of the loop of performChunking, the running token
\* total of the chunk being built, currentTokens, is at most maxTokens
C25_CurrentTokensWithinBudget ==
    ck.pc \in {"loop", "final"} => ck.currentTokens <= ck.input.maxTokens


\* the same characters of the same sentence
C26_Same(p, q) == p.para = q.para /\ p.sent = q.sent /\ p.lo = q.lo /\ p.hi = q.hi

\* the prefix is the last sentences of the closed chunk, each of them whole
C26_TrailingRun(prefix, closed) ==
    /\ Len(prefix) <= Len(closed)
    /\ \A n \in 1..Len(prefix) :
           /\ C26_Same(prefix[n], closed[Len(closed) - Len(prefix) + n])
           /\ prefix[n].lo = 0 /\ prefix[n].hi = SentenceKinds[prefix[n].kind].len

\* C26: when a chunk is closed because the next section would overflow,
\* the text put before that section in the next chunk is a trailing run of
\* whole sentences of the closed chunk, of at most overlapTokens tokens
C26_PrefixIsTrailingRun ==
    [][(/\ ck.pc = "loop"
        /\ fits(ck, countTokens(ck.sections[ck.i + 1]))
        /\ overflows(ck, countTokens(ck.sections[ck.i + 1])))
       => /\ C26_TrailingRun(C16_Prefix(ck'.currentChunk), ck.currentChunk)
          /\ countTokens(C16_Prefix(ck'.currentChunk)) <= overlapTokens]_vars


\* the slices are in order, none overlaps the one before it, nothing but
\* the white space that trim() removes lies before, between or after them,
\* and none is longer than maxChars
C27_Slices(p, parts, maxChars) ==
    /\ parts # <<>>
    /\ parts[1].text[1].lo - p.lo <= 1
    /\ p.hi - parts[Len(parts)].text[1].hi <= 1
    /\ \A k \in 1..Len(parts) :
           /\ Len(parts[k].text) = 1
           /\ parts[k].text[1].hi - parts[k].text[1].lo <= maxChars
           /\ k > 1 => /\ parts[k].text[1].lo >= parts[k - 1].text[1].hi
                       /\ parts[k].text[1].lo - parts[k - 1].text[1].hi <= 1

\* the sentences of the sections that have more than maxTokens tokens
C27_Oversized(c) ==
    {s \in UNION {{<<p>> : p \in {section[k] : k \in 1..Len(section)}} :
                      section \in {c.sections[n] : n \in 1..Len(c.sections)}} :
        countTokens(s) > c.input.maxTokens}

\* C27: for an oversized sentence splitByCharacterLimitSecure returns
\* slices that are consecutive, in order and not overlapping, that cover
\* the sentence, and that have at most min(3 * maxTokens, 10000) characters
C27_SlicesCoverSentence ==
    ck.pc \in {"loop", "final", "returned"} =>
        \A s \in C27_Oversized(ck) :
            C27_Slices(s[1], splitByCharacterLimitSecure(s, ck.input.maxTokens),
                       Min(ck.input.maxTokens * 3, 10000))

\* C30: the tokenCount of every chunk that chunkDocument returns is the
\* token count of the text of that chunk
C30_TokenCountOfOwnText ==
    ck.pc = "returned" =>
        \A k \in 1..Len(ck.result) : ck.result[k].tokenCount = countTokens(ck.result[k].text)


\* C29: a countTokens or analyzeText call for an alias returns what the
\* same call for the canonical model id of that alias returns
C29_AliasSameAsCanonical ==
    \A modelId \in DOMAIN aliases :
        (tc.stage = "ready" /\ tc.last.op # "none" /\ tc.last.model \in aliases[modelId])
            => tc.outcome = tcOutcome(tc, [tc.last EXCEPT !.model = modelId])


\* the names the check is to reject
C23_Rejectable(fileName) ==
    \/ fileName = <<>>
    \/ Len(fileName) > 255
    \/ \E i \in 1..(Len(fileName) - 1) : fileName[i] = "." /\ fileName[i + 1] = "."
    \/ \E i \in 1..Len(fileName) :
           fileName[i] \in {"/", "\\", ControlChar, "<", ">", ":", "\"", "|", "?", "*"}
    \/ [i \in 1..Len(beforeFirstDot(fileName)) |-> toUpper(beforeFirstDot(fileName)[i])]
           \in reservedNames

\* C23: the name check rejects a file name that is empty, longer than 255
\* characters, holds '..', a path separator, a control character or one of
\* <>:"|?*, or names a reserved device before its first '.', and accepts
\* every other name
C23_NameCheck ==
    nm.pc = "checked" => (nm.verdict = "invalidName" <=> C23_Rejectable(nm.fileName))


\* what the coordinator holds for one call
C22_Own(a, id) ==
    <<id \in a.activeProcessing, id \in a.timers, id \in a.files, a.calls[id]>>

\* C22: the failure, the timeout or the cleanup of one call leaves the
\* entry, the deadline timer, the temp file and the outcome of every other
\* call as they were
C22_OtherCallsUntouched ==
    [][ap'.pc = "running" /\ ap.pc = "running" /\ ap'.step \in {"finally", "deadline"}
          => \A id \in Ids \ {ap'.actor} : C22_Own(ap', id) = C22_Own(ap, id)]_vars

\* a call has failed and been cleaned up while another one is in its race
C22_Witness ==
    /\ ap.pc = "running"
    /\ ap.step = "finally" /\ ap.actor = 1 /\ ap.calls[1].outcome = "failed"
    /\ C22_Own(ap, 2) = <<TRUE, TRUE, TRUE, ApCall("extract", 2, "none")>>


\* C21: a call of extractContent for a content that an earlier call has
\* extracted does not run the format extractor again when it is made less
\* than 30 minutes after that call ended, and runs it when it is made 30
\* minutes after it or later
C21_StoredResultReused ==
    fx.pc = "running" =>
        \A i \in 1..Len(fx.ended) : \A j \in 1..Len(fx.ended) :
            (/\ fx.ended[i].extracted
             /\ fx.ended[j].content = fx.ended[i].content
             /\ fx.ended[j].at > fx.ended[i].endedAt
             /\ \A k \in 1..Len(fx.ended) :
                    (fx.ended[k].extracted /\ fx.ended[k].content = fx.ended[i].content
                     /\ fx.ended[j].at > fx.ended[k].endedAt)
                        => fx.ended[k].endedAt <= fx.ended[i].endedAt)
                => (fx.ended[j].ran <=> fx.ended[j].at - fx.ended[i].endedAt >= cacheExpiry)


RECURSIVE C28_TakenFrom(_, _, _)
\* the characters taken from the string with this id in the first k takes
C28_TakenFrom(takes, id, k) ==
    IF k = 0 THEN 0
    ELSE C28_TakenFrom(takes, id, k - 1) + (IF takes[k].id = id THEN takes[k].taken ELSE 0)

\* C28: extractTextFromSlideXMLSafe returns; it takes no text from a node
\* more than 10 levels below the root, at most 1000 characters from any
\* one string, and returns at most 5000 characters
C28_SlideTextBounded ==
    sl.pc = "returned" =>
        /\ \A k \in 1..Len(sl.takes) :
               /\ sl.takes[k].level <= 10
               /\ C28_TakenFrom(sl.takes, sl.takes[k].id, Len(sl.takes)) <= 1000
        /\ sl.length <= 5000


\* what a response carries of the document
C24_Carried(response) == <<response.text, response.tokenAnalysis, response.chunks>>

====
